---- MODULE Spec2Model ----
(***************************************************************************)
(* vue-prop-konverter: the engine that rewrites an object-style            *)
(* defineProps({...}) declaration into defineProps<{...}>() with a          *)
(* destructured binding.                                                    *)
(*                                                                          *)
(* Texts are TLA+ strings.  Positions are 0-based, as in the TypeScript     *)
(* source, and -1 is the "not found" result of indexOf / findMatching.      *)
(* The utilities are the latest variant of src/utils (unnamed/part_000,     *)
(* lines 367-791); convertProps is src/src/core/converter.ts.               *)
(***************************************************************************)
EXTENDS Integers, Sequences, FiniteSets, TLC

VARIABLES
    decl,      \* the declaration as it was written: [style, shape, entries, stray]
    text,      \* the text handed to the engine
    pc,        \* "ready" before the call, then the name of the operation called
    arg,       \* findMatching's arguments [openIdx, open, close] (scanner calls)
    found,     \* result of findMatching
    matches,   \* result of findMatchesDefineProps(text)
    props,     \* result of extractProps(body of the first match)
    output     \* result of convertProps(text)

vars == <<decl, text, pc, arg, found, matches, props, output>>

----------------------------------------------------------------------------
(* JavaScript string primitives *)

Min(a, b) == IF a < b THEN a ELSE b

Max(a, b) == IF a > b THEN a ELSE b

\* The least i in a..b with P(i), or -1: a linear search, evaluated by halving
\* the range so that the evaluation stays shallow on long texts.
First(P(_), a, b) ==
    LET RECURSIVE go(_, _)
        go(lo, hi) ==
            IF lo > hi THEN -1
            ELSE IF lo = hi THEN (IF P(lo) THEN lo ELSE -1)
            ELSE LET mid == (lo + hi) \div 2
                     l == go(lo, mid)
                 IN  IF l # -1 THEN l ELSE go(mid + 1, hi)
    IN  go(a, b)

\* The greatest i in a..b with P(i), or -1.
Last(P(_), a, b) ==
    LET RECURSIVE go(_, _)
        go(lo, hi) ==
            IF lo > hi THEN -1
            ELSE IF lo = hi THEN (IF P(lo) THEN lo ELSE -1)
            ELSE LET mid == (lo + hi) \div 2
                     r == go(mid + 1, hi)
                 IN  IF r # -1 THEN r ELSE go(lo, mid)
    IN  go(a, b)

\* A loop "while (i < n) { body }" over the positions of a text.  The state st
\* holds the loop variable st.i and st.done (the loop was left by break or
\* return); Step(st, j) is the body run with i = j and yields the next state,
\* whose i is greater than j.  The loop runs the body at the positions i takes,
\* in order; the range is halved for the same reason as in First.
While(Step(_, _), st0, n) ==
    LET RECURSIVE go(_, _, _)
        go(st, lo, hi) ==
            IF lo > hi \/ st.done \/ st.i > hi THEN st
            ELSE IF lo = hi THEN (IF st.i = lo THEN Step(st, lo) ELSE st)
            ELSE LET mid == (lo + hi) \div 2
                 IN  go(go(st, lo, mid), mid + 1, hi)
    IN  go(st0, 0, n - 1)

\* s[i]; "" stands for undefined (i outside the string)
CharAt(s, i) == IF i >= 0 /\ i < Len(s) THEN SubSeq(s, i + 1, i + 1) ELSE ""

\* s.slice(a, b) for 0 <= a
Slice(s, a, b) ==
    LET e == Min(b, Len(s))
    IN  IF a < e THEN SubSeq(s, a + 1, e) ELSE ""

\* s.slice(a)
SliceFrom(s, a) == Slice(s, a, Len(s))

\* s.startsWith(p, i)
StartsWithAt(s, p, i) == Slice(s, i, i + Len(p)) = p

StartsWith(s, p) == StartsWithAt(s, p, 0)

\* s.indexOf(p, from)
IndexOf(s, p, from) ==
    First(LAMBDA i : StartsWithAt(s, p, i), from, Len(s) - Len(p))

Includes(s, p) == IndexOf(s, p, 0) # -1

\* s.lastIndexOf(c, from) for a one-character c
LastIndexOf(s, c, from) == Last(LAMBDA i : CharAt(s, i) = c, 0, from)

\* \s of a JavaScript regular expression (its ASCII members)
WhiteSpace == {" ", "\t", "\n", "\r", "\f"}

Digits == {"0", "1", "2", "3", "4", "5", "6", "7", "8", "9"}

Letters ==
    {"a", "b", "c", "d", "e", "f", "g", "h", "i", "j", "k", "l", "m",
     "n", "o", "p", "q", "r", "s", "t", "u", "v", "w", "x", "y", "z",
     "A", "B", "C", "D", "E", "F", "G", "H", "I", "J", "K", "L", "M",
     "N", "O", "P", "Q", "R", "S", "T", "U", "V", "W", "X", "Y", "Z"}

\* \w
WordChars == Letters \cup Digits \cup {"_"}

\* [A-Za-z0-9_$]
IdentChars == WordChars \cup {"$"}

\* while (i < n && <s[i] is in cs>) i++: the position the loop leaves
SkipSet(s, i, cs) ==
    IF i >= Len(s) THEN i
    ELSE First(LAMBDA j : j = Len(s) \/ CharAt(s, j) \notin cs, i, Len(s))

\* while (i < n && /\s/.test(s[i])) i++
SkipSpace(s, i) == SkipSet(s, i, WhiteSpace)

TrimStart(s) == SliceFrom(s, SkipSpace(s, 0))

TrimEnd(s) ==
    Slice(s, 0, Last(LAMBDA j : CharAt(s, j) \notin WhiteSpace, 0, Len(s) - 1) + 1)

Trim(s) == TrimEnd(TrimStart(s))

\* \b at position i of s
WordBoundary(s, i) ==
    (CharAt(s, i - 1) \in WordChars) # (CharAt(s, i) \in WordChars)

RECURSIVE Split(_, _)
\* s.split(sep) for a one-character sep
Split(s, sep) ==
    LET k == IndexOf(s, sep, 0)
    IN  IF k = -1 THEN <<s>>
        ELSE <<Slice(s, 0, k)>> \o Split(SliceFrom(s, k + 1), sep)

RECURSIVE Join(_, _)
\* parts.join(sep)
Join(parts, sep) ==
    IF Len(parts) = 0 THEN ""
    ELSE IF Len(parts) = 1 THEN parts[1]
    ELSE parts[1] \o sep \o Join(Tail(parts), sep)

----------------------------------------------------------------------------
(* findMatching: the balanced scanner *)

\* The lexer of TLA+ rejects a backquote inside a string: the model writes the
\* backquote character as ^, a character that means nothing else to the engine.
BackTick == "^"

\* the characters of '\'"`'
Quotes == {"'", "\"", BackTick}

\* findMatchingStep with no notion of a quoted region
findMatchingStepQuoteBlind(t, openChar, closeChar, st, j) ==
    LET ch == CharAt(t, j) IN
    IF ch = openChar THEN [st EXCEPT !.i = j + 1, !.depth = st.depth + 1]
    ELSE IF ch = closeChar
    THEN IF st.depth - 1 = 0
         THEN [st EXCEPT !.done = TRUE, !.result = j]
         ELSE [st EXCEPT !.i = j + 1, !.depth = st.depth - 1]
    ELSE [st EXCEPT !.i = j + 1]

\* findMatchingStep in which a quote of any kind closes a quoted region
findMatchingStepAnyQuote(t, openChar, closeChar, st, j) ==
    LET ch == CharAt(t, j) IN
    IF st.inString # "" THEN
        IF ch = "\\" /\ j + 1 < Len(t) THEN [st EXCEPT !.i = j + 2]
        ELSE IF ch \in Quotes THEN [st EXCEPT !.i = j + 1, !.inString = ""]
        ELSE [st EXCEPT !.i = j + 1]
    ELSE IF ch \in Quotes THEN [st EXCEPT !.i = j + 1, !.inString = ch]
    ELSE IF ch = openChar THEN [st EXCEPT !.i = j + 1, !.depth = st.depth + 1]
    ELSE IF ch = closeChar
    THEN IF st.depth - 1 = 0
         THEN [st EXCEPT !.done = TRUE, !.result = j]
         ELSE [st EXCEPT !.i = j + 1, !.depth = st.depth - 1]
    ELSE [st EXCEPT !.i = j + 1]

\* the body of the for loop of findMatching, run with i = j
findMatchingStep(t, openChar, closeChar, st, j) ==
    LET ch == CharAt(t, j) IN
    IF st.inString # "" THEN
        IF ch = "\\" /\ j + 1 < Len(t) THEN [st EXCEPT !.i = j + 2]
        ELSE IF ch = st.inString THEN [st EXCEPT !.i = j + 1, !.inString = ""]
        ELSE [st EXCEPT !.i = j + 1]
    ELSE IF ch \in Quotes THEN [st EXCEPT !.i = j + 1, !.inString = ch]
    ELSE IF ch = openChar THEN [st EXCEPT !.i = j + 1, !.depth = st.depth + 1]
    ELSE IF ch = closeChar
    THEN IF st.depth - 1 = 0
         THEN [st EXCEPT !.done = TRUE, !.result = j]
         ELSE [st EXCEPT !.i = j + 1, !.depth = st.depth - 1]
    ELSE [st EXCEPT !.i = j + 1]

findMatching(t, openIdx, openChar, closeChar) ==
    While(LAMBDA st, j : findMatchingStep(t, openChar, closeChar, st, j),
          [i |-> openIdx, done |-> FALSE, depth |-> 0, inString |-> "",
           result |-> -1],
          Len(t)).result

\* the body of the for loop of findFirstTopLevelBrace, run with i = j
findFirstTopLevelBraceStep(t, st, j) ==
    LET ch == CharAt(t, j) IN
    IF st.inString # "" THEN
        IF ch = "\\" /\ j + 1 < Len(t) THEN [st EXCEPT !.i = j + 2]
        ELSE IF ch = st.inString THEN [st EXCEPT !.i = j + 1, !.inString = ""]
        ELSE [st EXCEPT !.i = j + 1]
    ELSE IF ch \in Quotes THEN [st EXCEPT !.i = j + 1, !.inString = ch]
    ELSE IF ch = "{" THEN [st EXCEPT !.done = TRUE, !.result = j]
    ELSE [st EXCEPT !.i = j + 1]

findFirstTopLevelBrace(t, from, to) ==
    While(LAMBDA st, j : findFirstTopLevelBraceStep(t, st, j),
          [i |-> from, done |-> FALSE, inString |-> "", result |-> -1],
          to).result

----------------------------------------------------------------------------
(* findMatchesDefineProps: the call-site locator *)

\* defineProps\s*\( at position q: the position after the "(", or -1
MatchCallAt(t, q) ==
    IF ~StartsWithAt(t, "defineProps", q) THEN -1
    ELSE LET r == SkipSpace(t, q + 11)
         IN  IF CharAt(t, r) = "(" THEN r + 1 ELSE -1

\* const\s+\w+\s*=\s* at position q: the position after it, or -1
MatchConstAt(t, q) ==
    IF ~StartsWithAt(t, "const", q) THEN -1
    ELSE LET a == SkipSpace(t, q + 5)
             b == SkipSet(t, a, WordChars)
             c == SkipSpace(t, b)
         IN  IF a > q + 5 /\ b > a /\ CharAt(t, c) = "="
             THEN SkipSpace(t, c + 1)
             ELSE -1

\* /(?:const\s+\w+\s*=\s*)?defineProps\s*\(/ anchored at q: the end of the
\* match, or -1.  The optional group is tried first, then skipped.
MatchDefinePropsAt(t, q) ==
    LET Either(withConst) == IF withConst # -1 THEN withConst ELSE MatchCallAt(t, q)
        AfterConst(g) == Either(IF g = -1 THEN -1 ELSE MatchCallAt(t, g))
    IN  AfterConst(MatchConstAt(t, q))

\* regex.exec(text) with lastIndex = from: <<m.index, end of m[0]>>, or <<>>
RegexExec(t, from) ==
    LET Match(index) ==
            IF index = -1 THEN <<>> ELSE <<index, MatchDefinePropsAt(t, index)>>
    IN  Match(First(LAMBDA q : MatchDefinePropsAt(t, q) # -1, from, Len(t)))

\* CandidateMatch that never compares the closing brace with the closing
\* parenthesis
CandidateMatchAnyBrace(t, m) ==
    LET start == m[1]
        openParen == IndexOf(t, "(", m[2] - 1)
        closeParen == findMatching(t, openParen, "(", ")")
        braceOpen == findFirstTopLevelBrace(t, openParen + 1, closeParen)
        braceClose == findMatching(t, braceOpen, "{", "}")
    IN  IF openParen < 0 THEN <<>>
        ELSE IF closeParen < 0 THEN <<>>
        ELSE IF braceOpen < 0 THEN <<>>
        ELSE IF braceClose < 0 THEN <<>>
        ELSE << [start |-> start, end |-> closeParen + 1,
                 openBrace |-> braceOpen, closeBrace |-> braceClose,
                 prefix |-> Slice(t, start, openParen)] >>

\* the body of the while loop for one regex match m: the match pushed, or <<>>
CandidateMatch(t, m) ==
    LET Pushed(openParen, closeParen, braceOpen, braceClose) ==
            IF braceClose < 0 \/ braceClose > closeParen THEN <<>>
            ELSE << [start |-> m[1], end |-> closeParen + 1,
                     openBrace |-> braceOpen, closeBrace |-> braceClose,
                     prefix |-> Slice(t, m[1], openParen)] >>
        Braced(openParen, closeParen, braceOpen) ==
            IF braceOpen < 0 THEN <<>>
            ELSE Pushed(openParen, closeParen, braceOpen,
                        findMatching(t, braceOpen, "{", "}"))
        Closed(openParen, closeParen) ==
            IF closeParen < 0 THEN <<>>
            ELSE Braced(openParen, closeParen,
                        findFirstTopLevelBrace(t, openParen + 1, closeParen))
        Opened(openParen) ==
            IF openParen < 0 THEN <<>>
            ELSE Closed(openParen, findMatching(t, openParen, "(", ")"))
    IN  Opened(IndexOf(t, "(", m[2] - 1))

RECURSIVE findMatchesFromUntilFailure(_, _)
\* findMatchesFrom that leaves the loop at the first candidate it discards
findMatchesFromUntilFailure(t, from) ==
    LET m == RegexExec(t, from)
    IN  IF m = <<>> THEN <<>>
        ELSE IF CandidateMatch(t, m) = <<>> THEN <<>>
        ELSE CandidateMatch(t, m) \o findMatchesFromUntilFailure(t, m[2])

RECURSIVE findMatchesFrom(_, _)
\* the while loop of findMatchesDefineProps with lastIndex = from
findMatchesFrom(t, from) ==
    LET Matched(m) ==
            IF m = <<>> THEN <<>>
            ELSE CandidateMatch(t, m) \o findMatchesFrom(t, m[2])
    IN  Matched(RegexExec(t, from))

\* findMatchesDefineProps with one regex object kept from call to call, its
\* lastIndex left after the last call site the call before has found
findMatchesSharedRegex(t) ==
    LET before == IF props = <<>> THEN <<>> ELSE props[Len(props)].matches
    IN  findMatchesFrom(t, IF before = <<>> THEN 0
                           ELSE before[Len(before)].end)

findMatchesDefineProps(t) == findMatchesFrom(t, 0)

----------------------------------------------------------------------------
(* extractProps: the entry extractor *)

\* An optional string (string | undefined) is a sequence of at most one string.
Undefined == <<>>

Some(s) == <<s>>

\* the end of a // comment that starts at i: the position after its line
LineCommentEnd(body, i) ==
    LET end == IndexOf(body, "\n", i)
    IN  IF end >= 0 THEN end + 1 ELSE Len(body)

\* body.slice(i, end >= 0 ? end : n).trim() for a // comment that starts at i
LineCommentText(body, i) ==
    LET end == IndexOf(body, "\n", i)
    IN  Trim(Slice(body, i, IF end >= 0 THEN end ELSE Len(body)))

RECURSIVE LeadingComments(_, _, _)
\* the loop "while (foundComment)" entered at position i with the comments
\* gathered so far: the position it leaves and the comments it gathered
LeadingComments(body, i, lines) ==
    IF Slice(body, i, i + 2) = "//"
    THEN LeadingComments(body, LineCommentEnd(body, i),
                         Append(lines, LineCommentText(body, i)))
    ELSE IF Slice(body, i, i + 2) = "/*"
    THEN LET end == IndexOf(body, "*/", i)
         IN  IF end # -1
             THEN LeadingComments(body, end + 2,
                                  Append(lines, Trim(Slice(body, i, end + 2))))
             ELSE [i |-> Len(body), lines |-> lines]
    ELSE [i |-> i, lines |-> lines]

\* the body of "while (i < n && body[i] !== quote)", run with i = j
QuotedNameStep(body, quote, st, j) ==
    IF CharAt(body, j) = quote THEN [st EXCEPT !.done = TRUE]
    ELSE IF CharAt(body, j) = "\\" THEN [st EXCEPT !.i = j + 2]
    ELSE [st EXCEPT !.i = j + 1]

\* the position at which the loop over a quoted name that starts at i stops
QuotedNameEnd(body, i, quote) ==
    While(LAMBDA st, j : QuotedNameStep(body, quote, st, j),
          [i |-> i, done |-> FALSE], Len(body)).i

\* the quote characters of `"'` (lines 632 and 671)
NameQuotes == {"\"", "'"}

\* the property name that starts at i: the name and the position after it
PropName(body, i) ==
    IF CharAt(body, i) \in NameQuotes
    THEN LET e == QuotedNameEnd(body, i + 1, CharAt(body, i))
         IN  [name |-> Slice(body, i + 1, e), i |-> e + 1]
    ELSE LET e == SkipSet(body, i, IdentChars)
         IN  [name |-> Slice(body, i, e), i |-> e]

\* the body of the loop "while (i < n)" over a value, run with i = j
ValueWalkStep(body, st, j) ==
    LET ch == CharAt(body, j)
        end == IndexOf(body, "*/", j)
    IN
    IF st.inString # "" THEN
        IF ch = "\\" /\ j + 1 < Len(body) THEN [st EXCEPT !.i = j + 2]
        ELSE IF ch = st.inString THEN [st EXCEPT !.i = j + 1, !.inString = ""]
        ELSE [st EXCEPT !.i = j + 1]
    ELSE IF ch \in NameQuotes THEN [st EXCEPT !.i = j + 1, !.inString = ch]
    ELSE IF ch \in {"{", "[", "("}
    THEN [st EXCEPT !.i = j + 1, !.depth = st.depth + 1]
    ELSE IF ch \in {"}", "]", ")"}
    THEN [st EXCEPT !.i = j + 1, !.depth = Max(0, st.depth - 1)]
    ELSE IF st.depth = 0 THEN
        IF Slice(body, j, j + 2) = "//"
        THEN [st EXCEPT !.i = LineCommentEnd(body, j),
                        !.lines = Append(st.lines, LineCommentText(body, j))]
        ELSE IF Slice(body, j, j + 2) = "/*"
        THEN IF end = -1 THEN [st EXCEPT !.done = TRUE]
             ELSE [st EXCEPT !.i = end + 2,
                             !.lines = Append(st.lines,
                                              Trim(Slice(body, j, end + 2)))]
        ELSE IF ch = "," THEN [st EXCEPT !.done = TRUE]
        ELSE [st EXCEPT !.i = j + 1]
    ELSE [st EXCEPT !.i = j + 1]

\* lines 658-696: the walk over the value that starts at i, with the comments
\* gathered before the entry: the position it leaves and the comments, the
\* inline ones met at depth zero appended
ValueWalk(body, i, lines) ==
    While(LAMBDA st, j : ValueWalkStep(body, st, j),
          [i |-> i, done |-> FALSE, depth |-> 0, inString |-> "",
           lines |-> lines],
          Len(body))

\* a step of the loop that leaves the position where it is on a line that has
\* no colon
extractPropsStepInPlace(body, i, out) ==
    LET i1 == SkipSet(body, i, WhiteSpace \cup {","})
        i2 == SkipSpace(body, LeadingComments(body, i1, <<>>).i)
        i3 == SkipSpace(body, PropName(body, i2).i)
    IN  IF i1 < Len(body) /\ i2 < Len(body) /\ CharAt(body, i3) # ":"
        THEN [i |-> i, out |-> out, done |-> FALSE]
        ELSE [i |-> i3 + 1, out |-> out, done |-> FALSE]

\* one iteration of the outer loop "while (i < n)", entered at position i < n
\* with the entries pushed so far: the position and the entries it leaves, and
\* whether it left the loop by a break
extractPropsStep(body, i, out) ==
    LET n == Len(body)
        Pushed(name, i3, vw) ==
            [i |-> IF vw.i < n /\ CharAt(body, vw.i) = "," THEN vw.i + 1 ELSE vw.i,
             out |-> Append(out, [name |-> name,
                                  value |-> Trim(Slice(body, i3 + 1, vw.i)),
                                  comment |-> IF Len(vw.lines) > 0
                                              THEN Some(Join(vw.lines, "\n"))
                                              ELSE Undefined]),
             done |-> FALSE]
        SkippedLine(nl) ==
            [i |-> IF nl = -1 THEN n ELSE nl + 1, out |-> out, done |-> FALSE]
        Colon(lines, name, i3) ==
            IF CharAt(body, i3) # ":"
            THEN SkippedLine(IndexOf(body, "\n", i3))
            ELSE Pushed(name, i3, ValueWalk(body, i3 + 1, lines))
        Named(lines, pn) == Colon(lines, pn.name, SkipSpace(body, pn.i))
        Commented(lines, i2) ==
            IF i2 >= n THEN [i |-> i2, out |-> out, done |-> TRUE]
            ELSE Named(lines, PropName(body, i2))
        Gathered(lc) == Commented(lc.lines, SkipSpace(body, lc.i))
        Skipped(i1) ==
            IF i1 >= n THEN [i |-> i1, out |-> out, done |-> TRUE]
            ELSE Gathered(LeadingComments(body, i1, <<>>))
    IN  Skipped(SkipSet(body, i, WhiteSpace \cup {","}))

RECURSIVE extractPropsFrom(_, _)
\* the outer loop "while (i < n)" in the state st an iteration has left: the
\* position st.i, the entries pushed so far st.out, and whether the loop was
\* left by a break
extractPropsFrom(body, st) ==
    IF st.done \/ st.i >= Len(body) THEN st.out
    ELSE extractPropsFrom(body, extractPropsStep(body, st.i, st.out))

extractProps(body) ==
    extractPropsFrom(body, [i |-> 0, out |-> <<>>, done |-> FALSE])

----------------------------------------------------------------------------
(* isPropRequired, extractDefaultValue *)

\* /\brequired\s*:\s*true\b/ anchored at p
RequiredTrueAt(v, p) ==
    /\ WordBoundary(v, p)
    /\ StartsWithAt(v, "required", p)
    /\ LET c == SkipSpace(v, p + 8)
           t == SkipSpace(v, c + 1)
       IN  /\ CharAt(v, c) = ":"
           /\ StartsWithAt(v, "true", t)
           /\ WordBoundary(v, t + 4)

isPropRequired(v) == \E p \in 0..Len(v) : RequiredTrueAt(v, p)

\* /default\s*:\s*/ anchored at q: the length of the match, or -1
DefaultColonAt(after, q) ==
    LET c == SkipSpace(after, q + 7)
    IN  IF StartsWithAt(after, "default", q) /\ CharAt(after, c) = ":"
        THEN SkipSpace(after, c + 1) - q
        ELSE -1

\* after.match(/default\s*:\s*/): the length of m[0], or -1 when there is no
\* match
DefaultColonMatch(after) ==
    LET q == First(LAMBDA k : DefaultColonAt(after, k) # -1, 0, Len(after))
    IN  IF q = -1 THEN -1 ELSE DefaultColonAt(after, q)

\* the body of the loop "while (i < value.length)" of extractDefaultValue, run
\* with i = j
DefaultWalkStep(v, st, j) ==
    LET ch == CharAt(v, j)
        d == Max(0, st.depth - 1)
        nxt == TrimStart(SliceFrom(v, j + 1))
    IN
    IF st.inString # "" THEN
        IF ch = "\\" /\ j + 1 < Len(v)
        THEN [st EXCEPT !.i = j + 2, !.result = st.result \o ch \o CharAt(v, j + 1)]
        ELSE IF ch = st.inString
        THEN [st EXCEPT !.i = j + 1, !.result = st.result \o ch, !.inString = ""]
        ELSE [st EXCEPT !.i = j + 1, !.result = st.result \o ch]
    ELSE IF ch \in Quotes
    THEN [st EXCEPT !.i = j + 1, !.result = st.result \o ch, !.inString = ch]
    ELSE IF ch \in {"(", "{", "["}
    THEN [st EXCEPT !.i = j + 1, !.result = st.result \o ch,
                    !.depth = st.depth + 1]
    ELSE IF ch \in {")", "}", "]"}
    THEN [st EXCEPT !.i = j + 1, !.result = st.result \o ch, !.depth = d,
                    !.done = d = 0 /\ (StartsWith(nxt, ",") \/ StartsWith(nxt, "\n")
                                       \/ StartsWith(nxt, "}"))]
    ELSE IF (ch = "," \/ ch = "\n") /\ st.depth = 0 THEN [st EXCEPT !.done = TRUE]
    ELSE [st EXCEPT !.i = j + 1, !.result = st.result \o ch]

\* lines 400-447: the text gathered from position i on
DefaultWalk(v, i) ==
    While(LAMBDA st, j : DefaultWalkStep(v, st, j),
          [i |-> i, done |-> FALSE, result |-> "", inString |-> "", depth |-> 0],
          Len(v)).result

\* def.replace(/^\(\)\s*=>\s*/, '').trim() for a def that starts with "() =>"
StripArrow(def) == Trim(SliceFrom(def, SkipSpace(def, 5)))

\* lines 452-458: the arrow wrapper dropped, a brace or bracket literal
\* wrapped in parentheses
CleanDefault(def) ==
    LET body == IF StartsWith(def, "() =>") THEN StripArrow(def) ELSE def
    IN  IF StartsWith(body, "{") \/ StartsWith(body, "[")
        THEN "(" \o body \o ")"
        ELSE body

extractDefaultValue(v) ==
    LET idx == IndexOf(v, "default", 0)
        len == DefaultColonMatch(SliceFrom(v, idx))
        def == Trim(DefaultWalk(v, idx + len))
    IN  IF idx = -1 THEN Undefined
        ELSE IF len = -1 THEN Undefined
        ELSE IF def = "" THEN Undefined
        ELSE Some(CleanDefault(def))

----------------------------------------------------------------------------
(* inferTypeFromValueOrValueToken: the type inferencer *)

\* the body of "while (i < input.length && depth > 0)" of extractPropType, run
\* with i = j
PropTypeStep(input, st, j) ==
    LET ch == CharAt(input, j)
        d == IF ch = "<" THEN st.depth + 1
             ELSE IF ch = ">" THEN st.depth - 1 ELSE st.depth
    IN  [st EXCEPT !.i = j + 1, !.depth = d, !.done = ~(d > 0),
                   !.typeStr = IF d > 0 THEN st.typeStr \o ch ELSE st.typeStr]

PropTypeWalk(input, i) ==
    While(LAMBDA st, j : PropTypeStep(input, st, j),
          [i |-> i, done |-> FALSE, depth |-> 1, typeStr |-> ""],
          Len(input)).typeStr

\* string | null
extractPropType(input, keyword) ==
    LET index == IndexOf(input, keyword \o "<", 0)
    IN  IF index = -1 THEN Undefined
        ELSE Some(Trim(PropTypeWalk(input, index + Len(keyword) + 1)))

normalizeType(type) ==
    CASE type = "String"   -> "string"
      [] type = "Number"   -> "number"
      [] type = "Boolean"  -> "boolean"
      [] type = "Array"    -> "any[]"
      [] type = "Object"   -> "Record<string, any>"
      [] type = "Function" -> "(...args: any[]) => any"
      [] OTHER             -> type

\* . of a regular expression: any character but a line terminator
NoLineBreak(s) == ~Includes(s, "\n") /\ ~Includes(s, "\r")

\* /^\d+(\.\d+)?$/
IsNumberLiteral(v) ==
    LET a == SkipSet(v, 0, Digits)
        b == SkipSet(v, a + 1, Digits)
    IN  /\ a > 0
        /\ \/ a = Len(v)
           \/ CharAt(v, a) = "." /\ b > a + 1 /\ b = Len(v)

inferTypeFromDefault(v) ==
    IF v = "" THEN "any"
    ELSE IF /\ CharAt(v, 0) \in Quotes
            /\ CharAt(v, Len(v) - 1) \in Quotes
            /\ Len(v) >= 2
            /\ NoLineBreak(Slice(v, 1, Len(v) - 1))
    THEN "string"
    ELSE IF IsNumberLiteral(v) THEN "number"
    ELSE IF v = "true" \/ v = "false" THEN "boolean"
    ELSE IF StartsWith(v, "(") /\ StartsWith(Trim(SliceFrom(v, 1)), "[") THEN "any[]"
    ELSE IF StartsWith(v, "[") \/ (StartsWith(v, "(") /\ Includes(v, "[")) THEN "any[]"
    ELSE IF StartsWith(v, "{") \/ (StartsWith(v, "(") /\ Includes(v, "{"))
    THEN "Record<string, any>"
    ELSE "any"

\* [A-Za-z0-9_$.|&\\[\]\s]
TypeChars == IdentChars \cup {".", "|", "&", "\\", "[", "]"} \cup WhiteSpace

\* /type\s*:\s*([A-Za-z0-9_$.|&\\[\]\s]+)/ anchored at p: the position after the
\* colon and the end of the run of class characters that follows it, when the
\* run is not empty; <<>> otherwise
TypeFieldAt(block, p) ==
    LET c == SkipSpace(block, p + 4)
        e == SkipSet(block, c + 1, TypeChars)
    IN  IF StartsWithAt(block, "type", p) /\ CharAt(block, c) = ":" /\ e > c + 1
        THEN <<c + 1, e>>
        ELSE <<>>

\* block.match(/type\s*:\s*([A-Za-z0-9_$.|&\\[\]\s]+)/): typeMatch[1].trim() when
\* there is a match, Undefined when there is none.  The class holds \s, so
\* the group is the run of class characters after the colon less the white
\* space \s* took, and its trim is the trim of the run.
TypeFieldMatch(block) ==
    LET Group(g) == Some(Trim(Slice(block, g[1], g[2])))
        Match(p) == IF p = -1 THEN Undefined ELSE Group(TypeFieldAt(block, p))
    IN  Match(First(LAMBDA k : TypeFieldAt(block, k) # <<>>, 0, Len(block)))

\* typeStr.replace(/\[|\]/g, '')
RemoveBrackets(s) ==
    While(LAMBDA st, j : [st EXCEPT !.i = j + 1,
                             !.out = IF CharAt(s, j) \in {"[", "]"}
                                     THEN st.out ELSE st.out \o CharAt(s, j)],
          [i |-> 0, done |-> FALSE, out |-> ""], Len(s)).out

\* lines 730-738: the declared type field mapped
MapTypeField(typeStr) ==
    IF StartsWith(typeStr, "[")
    THEN LET parts == Split(RemoveBrackets(typeStr), ",")
         IN  Join([k \in 1..Len(parts) |-> normalizeType(Trim(parts[k]))], " | ")
    ELSE normalizeType(typeStr)

inferTypeFromValueOrValueToken(value, propValueBlock) ==
    LET Typed(typeMatch) ==
            IF typeMatch # Undefined THEN MapTypeField(typeMatch[1])
            ELSE inferTypeFromDefault(value)
        Cast(asPropTypeIndex, asPropType) ==
            IF asPropTypeIndex # -1 /\ asPropType # Undefined /\ asPropType[1] # ""
            THEN asPropType[1]
            ELSE Typed(TypeFieldMatch(propValueBlock))
        CastAt(asPropTypeIndex) ==
            Cast(asPropTypeIndex,
                 extractPropType(SliceFrom(propValueBlock, asPropTypeIndex),
                                 "PropType"))
        Generic(propType) ==
            IF propType # Undefined /\ propType[1] # "" THEN propType[1]
            ELSE CastAt(IndexOf(propValueBlock, "as PropType<", 0))
    IN  Generic(extractPropType(propValueBlock, "PropType"))

----------------------------------------------------------------------------
(* convertProps: the formatter *)

\* p.name.replace(/^['"`](.+)['"`]$/, '$1')
StripNameQuotes(name) ==
    IF /\ Len(name) >= 3
       /\ CharAt(name, 0) \in Quotes
       /\ CharAt(name, Len(name) - 1) \in Quotes
       /\ NoLineBreak(Slice(name, 1, Len(name) - 1))
    THEN Slice(name, 1, Len(name) - 1)
    ELSE name

\* /^[^{}[\n]/.test(valueBlock)
StartsLikeBareValue(valueBlock) ==
    valueBlock # "" /\ CharAt(valueBlock, 0) \notin {"{", "}", "[", "\n"}

\* lines 35-58: one PropDefinition of propsParsed
ParseProp(p) ==
    LET Parsed(valueBlock, defaultValue) ==
            [name |-> StripNameQuotes(p.name),
             type |-> inferTypeFromValueOrValueToken(
                          IF defaultValue # Undefined THEN defaultValue[1] ELSE "",
                          valueBlock),
             required |-> isPropRequired(valueBlock),
             defaultValue |-> defaultValue,
             comment |-> p.comment]
        Defaulted(valueBlock, extracted) ==
            Parsed(valueBlock,
                   IF extracted # Undefined THEN extracted
                   ELSE IF StartsLikeBareValue(valueBlock)
                   THEN Some(valueBlock) ELSE Undefined)
    IN  Defaulted(p.value, extractDefaultValue(p.value))

\* line 62
IsOptional(p) == p.defaultValue # Undefined \/ p.required = FALSE

\* FormatComment that keeps the first line of the comment only
FormatCommentFirstLine(comment) == TrimStart(Split(comment, "\n")[1])

\* lines 66-69: the comment with its first line left-trimmed and every other
\* line trimmed and indented by two spaces
FormatComment(comment) ==
    LET lines == Split(comment, "\n")
    IN  Join([idx \in 1..Len(lines) |->
                 IF idx = 1 THEN TrimStart(lines[idx])
                 ELSE "  " \o Trim(lines[idx])], "\n")

\* lines 61-73: the entry of tsLines for p
TsLine(p) ==
    LET line == p.name \o (IF IsOptional(p) THEN "?" ELSE "") \o ": " \o p.type
    IN  IF p.comment # Undefined /\ p.comment[1] # ""
        THEN FormatComment(p.comment[1]) \o "\n  " \o line
        ELSE line

\* lines 76-79: the entry of destructureParts for p
DestructurePart(p) ==
    IF p.defaultValue # Undefined
    THEN p.name \o " = " \o p.defaultValue[1]
    ELSE p.name

DeclKeywords == <<"const", "let", "var">>

\* \b(const|let|var)\b anchored at q: the keyword matched, or ""
KeywordAt(s, q) ==
    LET hits == SelectSeq(DeclKeywords,
                    LAMBDA kw : /\ WordBoundary(s, q)
                                /\ StartsWithAt(s, kw, q)
                                /\ WordBoundary(s, q + Len(kw)))
    IN  IF hits = <<>> THEN "" ELSE hits[1]

\* lines 87-88: m.prefix.match(/\b(const|let|var)\b/), "const" without a match
DeclKeyword(prefix) ==
    LET Match(q) == IF q # -1 THEN KeywordAt(prefix, q) ELSE "const"
    IN  Match(First(LAMBDA k : KeywordAt(prefix, k) # "", 0, Len(prefix)))

\* \b(const|let|var)\s+[A-Za-z0-9_$]+\s*= anchored at q: the positions of the
\* name and the position after the "=", or <<>>
BindingAt(s, q) ==
    LET Bound(a0, a, b, c) ==
            IF a > a0 /\ b > a /\ CharAt(s, c) = "="
            THEN <<a, b, c + 1>>
            ELSE <<>>
        Named(a0, a, b) == Bound(a0, a, b, SkipSpace(s, b))
        Spaced(a0, a) == Named(a0, a, SkipSet(s, a, IdentChars))
        After(a0) == Spaced(a0, SkipSpace(s, a0))
        Keyword(kw) == IF kw = <<>> THEN <<>> ELSE After(q + Len(kw[1]))
    IN  Keyword(IF WordBoundary(s, q)
                THEN SelectSeq(DeclKeywords, LAMBDA k : StartsWithAt(s, k, q))
                ELSE <<>>)

\* line 95
HasVar(prefix) == \E q \in 0..Len(prefix) : BindingAt(prefix, q) # <<>>

\* lines 96-97: the name bound when the prefix ends right after "<name> ="
VarName(prefix) ==
    LET Name(g) == Slice(prefix, g[1], g[2])
        Ends(g) == g # <<>> /\ SkipSpace(prefix, g[3]) = Len(prefix)
        Match(q0) == IF q0 = -1 THEN "props" ELSE Name(BindingAt(prefix, q0))
    IN  Match(First(LAMBDA q : Ends(BindingAt(prefix, q)), 0, Len(prefix)))

\* text.slice(lineStart, m.start).match(/^\s*/)[0]
IndentOf(t, start) ==
    LET Leading(head) == Slice(head, 0, SkipSpace(head, 0))
    IN  Leading(Slice(t, LastIndexOf(t, "\n", start) + 1, start))

\* Replacement that lays the pattern out by the number of its entries alone
ReplacementByCount(t, m, propsParsed) ==
    LET tsLines == [k \in 1..Len(propsParsed) |-> TsLine(propsParsed[k])]
        destructureParts ==
            [k \in 1..Len(propsParsed) |-> DestructurePart(propsParsed[k])]
        indent == IndentOf(t, m.start)
        declKw == DeclKeyword(m.prefix)
        typeBlock ==
            "defineProps<{\n"
            \o Join([k \in 1..Len(tsLines) |-> indent \o "  " \o tsLines[k]], "\n")
            \o "\n" \o indent \o "}>()"
    IN  IF Len(destructureParts) > 1
        THEN indent \o declKw \o " {\n"
             \o Join([k \in 1..Len(destructureParts) |->
                         indent \o "  " \o destructureParts[k] \o ","], "\n")
             \o "\n" \o indent \o "} = " \o typeBlock
        ELSE indent \o declKw \o " { " \o Join(destructureParts, ", ")
             \o " } = " \o typeBlock

\* line 103: the joined length above which the pattern takes several lines
MultilineThreshold == 60

\* lines 81-112: the replacement built for match m from propsParsed
Replacement(t, m, propsParsed) ==
    LET Multiline(destructureParts) ==
            Len(Join(destructureParts, ", ")) > MultilineThreshold
            \/ Len(destructureParts) > 1
        Built(destructureParts, indent, declKw, typeBlock) ==
            IF Len(destructureParts) = 0
            THEN IF HasVar(m.prefix)
                 THEN indent \o declKw \o " " \o VarName(m.prefix) \o " = "
                      \o typeBlock
                 ELSE indent \o typeBlock
            ELSE IF Multiline(destructureParts)
            THEN indent \o declKw \o " {\n"
                 \o Join([k \in 1..Len(destructureParts) |->
                             indent \o "  " \o destructureParts[k] \o ","], "\n")
                 \o "\n" \o indent \o "} = " \o typeBlock
            ELSE indent \o declKw \o " { " \o Join(destructureParts, ", ")
                 \o " } = " \o typeBlock
        Typed(tsLines, destructureParts, indent) ==
            Built(destructureParts, indent, DeclKeyword(m.prefix),
                  "defineProps<{\n"
                  \o Join([k \in 1..Len(tsLines) |-> indent \o "  " \o tsLines[k]],
                          "\n")
                  \o "\n" \o indent \o "}>()")
    IN  Typed([k \in 1..Len(propsParsed) |-> TsLine(propsParsed[k])],
              [k \in 1..Len(propsParsed) |-> DestructurePart(propsParsed[k])],
              IndentOf(t, m.start))

\* the body handed to extractProps for match m
BodyOf(t, m) == Slice(t, m.openBrace + 1, m.closeBrace)

\* lines 33-58
ParseAll(propsList) == [k \in 1..Len(propsList) |-> ParseProp(propsList[k])]

\* convertProps that hands back the empty text when it locates no call site
convertPropsEmptyWithoutMatch(source) ==
    LET Converted(m) ==
            Replacement(source, m, ParseAll(extractProps(BodyOf(source, m))))
        Located(sites) ==
            IF Len(sites) = 0 THEN "" ELSE Converted(sites[1])
    IN  Located(findMatchesDefineProps(source))

convertProps(source) ==
    IF Len(findMatchesDefineProps(source)) = 0 THEN source
    ELSE Replacement(source, findMatchesDefineProps(source)[1],
                     ParseAll(extractProps(BodyOf(source, findMatchesDefineProps(source)[1]))))

----------------------------------------------------------------------------
(* normalizePropKey: the name given to a string-literal key *)

\* s.toLowerCase() on the characters of the texts handled here
ToLowerCase(s) ==
    While(LAMBDA st, j :
              LET c == CharAt(s, j)
                  k == IndexOf("ABCDEFGHIJKLMNOPQRSTUVWXYZ", c, 0)
              IN  [st EXCEPT !.i = j + 1,
                             !.out = st.out \o (IF k = -1 THEN c
                                                ELSE CharAt("abcdefghijklmnopqrstuvwxyz", k))],
          [i |-> 0, done |-> FALSE, out |-> ""], Len(s)).out

\* s.toUpperCase() on the characters of the texts handled here
ToUpperCase(s) ==
    While(LAMBDA st, j :
              LET c == CharAt(s, j)
                  k == IndexOf("abcdefghijklmnopqrstuvwxyz", c, 0)
              IN  [st EXCEPT !.i = j + 1,
                             !.out = st.out \o (IF k = -1 THEN c
                                                ELSE CharAt("ABCDEFGHIJKLMNOPQRSTUVWXYZ", k))],
          [i |-> 0, done |-> FALSE, out |-> ""], Len(s)).out

\* key.replace(/[^a-zA-Z0-9 ]+/g, ' '): every run of other characters gives
\* one space
ReplaceOtherRuns(key) ==
    While(LAMBDA st, j :
              LET c == CharAt(key, j)
              IN  IF c \in Letters \cup Digits \cup {" "}
                  THEN [st EXCEPT !.i = j + 1, !.out = st.out \o c, !.inRun = FALSE]
                  ELSE [st EXCEPT !.i = j + 1, !.inRun = TRUE,
                                  !.out = IF st.inRun THEN st.out ELSE st.out \o " "],
          [i |-> 0, done |-> FALSE, out |-> "", inRun |-> FALSE], Len(key)).out

\* cleaned.split(/\s+/) for a trimmed text whose only white space is the
\* space: "" gives [""]
SplitOnSpaces(cleaned) ==
    IF cleaned = "" THEN <<"">>
    ELSE SelectSeq(Split(cleaned, " "), LAMBDA w : w # "")

normalizePropKey(key) ==
    LET cleaned == Trim(ReplaceOtherRuns(key))
        words == SplitOnSpaces(cleaned)
    IN  Join([i \in 1..Len(words) |->
                 IF i = 1 THEN ToLowerCase(words[i])
                 ELSE ToUpperCase(CharAt(words[i], 0))
                      \o ToLowerCase(SliceFrom(words[i], 1))], "")

----------------------------------------------------------------------------
(* normalizeDefault: the default written by the AST-based converter *)

\* code.replace(/^\(\)\s*=>\s*/, '') for a code that starts with "() =>"
StripArrowWrapper(code) == SliceFrom(code, SkipSpace(code, 5))

\* lines 294-299: the parentheses around a brace literal dropped
StripObjectParens(code) ==
    LET inside == Trim(Slice(code, 1, Len(code) - 1))
    IN  IF /\ StartsWith(code, "(")
           /\ Len(code) >= 2
           /\ CharAt(code, Len(code) - 1) = ")"
           /\ StartsWith(inside, "{")
           /\ CharAt(inside, Len(inside) - 1) = "}"
        THEN inside
        ELSE code

RECURSIVE Unparenthesized(_)
\* the expression babel.parse finds in `(${code})`: parentheses that enclose
\* the whole of it stand for no node of their own
Unparenthesized(code) ==
    LET t == Trim(code)
    IN  IF StartsWith(t, "(") /\ findMatching(t, 0, "(", ")") = Len(t) - 1
        THEN Unparenthesized(Slice(t, 1, Len(t) - 1))
        ELSE t

\* the text between the brackets of a literal holds no bracket and no quote
\* with a comma: the literals read here are flat
IsFlat(inner) ==
    \A c \in {"(", ")", "{", "}", "[", "]"} : ~Includes(inner, c)

\* expr.type for the expressions read here: a flat array literal, a flat
\* object literal, or another expression
ExpressionType(expr) ==
    LET inner == Slice(expr, 1, Len(expr) - 1)
    IN  IF Len(expr) < 2 THEN "Other"
        ELSE IF StartsWith(expr, "[") /\ CharAt(expr, Len(expr) - 1) = "]" /\ IsFlat(inner)
        THEN "ArrayExpression"
        ELSE IF StartsWith(expr, "{") /\ CharAt(expr, Len(expr) - 1) = "}" /\ IsFlat(inner)
        THEN "ObjectExpression"
        ELSE "Other"

\* the element or property texts of a flat literal
LiteralItems(expr) ==
    LET inner == Trim(Slice(expr, 1, Len(expr) - 1))
        parts == Split(inner, ",")
    IN  IF inner = "" THEN <<>> ELSE [k \in 1..Len(parts) |-> Trim(parts[k])]

\* generate(expr).code for a flat array literal: its elements joined by ", "
GenerateArray(expr) == "[" \o Join(LiteralItems(expr), ", ") \o "]"

\* p.key.type of a property key as written
KeyType(key) ==
    IF key # "" /\ SkipSet(key, 0, Digits) = Len(key) THEN "NumericLiteral"
    ELSE IF Len(key) >= 2 /\ CharAt(key, 0) \in {"'", "\""}
            /\ CharAt(key, Len(key) - 1) = CharAt(key, 0)
    THEN "StringLiteral"
    ELSE "Identifier"

\* p.key.value, p.key.name: the key without its quotes
KeyValue(key) ==
    IF KeyType(key) = "StringLiteral" THEN Slice(key, 1, Len(key) - 1) ELSE key

\* expr.properties: the key and the generated value of each property
ObjectProperties(expr) ==
    LET items == LiteralItems(expr)
    IN  [k \in 1..Len(items) |->
            LET colon == IndexOf(items[k], ":", 0)
            IN  [key |-> Trim(Slice(items[k], 0, colon)),
                 value |-> Trim(SliceFrom(items[k], colon + 1))]]

RECURSIVE ParseInt(_)
\* parseInt(s, 10) for a text of digits
ParseInt(s) ==
    IF s = "" THEN 0
    ELSE 10 * ParseInt(Slice(s, 0, Len(s) - 1))
         + IndexOf("0123456789", CharAt(s, Len(s) - 1), 0)

\* lines 337-344: the index a key stands for, -1 when it stands for none
KeyIndex(key) ==
    IF KeyType(key) = "NumericLiteral" THEN ParseInt(key)
    ELSE IF /\ KeyType(key) = "StringLiteral"
            /\ KeyValue(key) # ""
            /\ SkipSet(KeyValue(key), 0, Digits) = Len(KeyValue(key))
    THEN ParseInt(KeyValue(key))
    ELSE -1

\* lines 326-352: whether every key is an index, and numericEntries: the
\* indexes that are assigned (an index is assigned under `if (keyIndex)`, so
\* never index 0) and the value assigned last to each
NumericEntries(properties) ==
    LET allNumericKeys ==
            Len(properties) > 0 /\ \A k \in 1..Len(properties) : KeyIndex(properties[k].key) # -1
        assigned == {KeyIndex(properties[k].key) : k \in 1..Len(properties)} \ {-1, 0}
        lastOf(i) == Last(LAMBDA k : KeyIndex(properties[k].key) = i, 1, Len(properties))
    IN  [allNumericKeys |-> allNumericKeys,
         assigned |-> assigned,
         length |-> IF assigned = {} THEN 0
                    ELSE 1 + CHOOSE m \in assigned : \A i \in assigned : i <= m,
         at |-> [i \in assigned |-> properties[lastOf(i)].value]]

\* lines 355-368: the array literal returned for the properties, Undefined
\* when the code falls through
NumericArray(properties) ==
    LET e == NumericEntries(properties)
        contiguous == \A i \in 0..(e.length - 1) : i \in e.assigned
    IN  IF e.allNumericKeys /\ contiguous
        THEN Some("[" \o Join([i \in 1..e.length |-> e.at[i - 1]], ", ") \o "]")
        ELSE Undefined

\* JSON.stringify(v).replace(/"/g, '\'') for the value a literal v evaluates
\* to: a string literal in single quotes, another literal as written
StringifyValue(v) ==
    IF Len(v) >= 2 /\ CharAt(v, 0) \in {"'", "\""}
    THEN "'" \o Slice(v, 1, Len(v) - 1) \o "'"
    ELSE v

RECURSIVE Ascending(_)
\* the members of a set of numbers in ascending order
Ascending(S) ==
    IF S = {} THEN <<>>
    ELSE LET m == CHOOSE x \in S : \A y \in S : x <= y
         IN  <<m>> \o Ascending(S \ {m})

\* Object.keys(obj) of the object a flat object literal evaluates to: the
\* index keys in ascending order, then the other keys in the order written,
\* each key once
EvaluatedKeys(properties) ==
    LET indexes == {KeyIndex(properties[k].key) : k \in 1..Len(properties)} \ {-1}
        first(k) == \A j \in 1..(k - 1) : KeyValue(properties[j].key) # KeyValue(properties[k].key)
        others == SelectSeq([k \in 1..Len(properties) |-> k],
                            LAMBDA k : KeyIndex(properties[k].key) = -1 /\ first(k))
        indexKey(i) == KeyValue(properties[First(LAMBDA k : KeyIndex(properties[k].key) = i,
                                            1, Len(properties))].key)
        sorted == Ascending(indexes)
    IN  [k \in 1..Len(sorted) |-> indexKey(sorted[k])]
        \o [k \in 1..Len(others) |-> KeyValue(properties[others[k]].key)]

\* a literal of a primitive value: a quoted text, a number, true or false
IsPrimitiveLiteral(v) ==
    \/ Len(v) >= 2 /\ CharAt(v, 0) \in {"'", "\""} /\ CharAt(v, Len(v) - 1) = CharAt(v, 0)
    \/ IsNumberLiteral(v)
    \/ v \in {"true", "false"}

\* lines 376-389: the one-line object returned by the fallback for a flat
\* object literal of primitive values, Undefined when the code falls through
\* (no key, or a value whose evaluation throws)
EvaluatedObject(properties) ==
    LET keys == EvaluatedKeys(properties)
        valueOf(key) ==
            properties[Last(LAMBDA k : KeyValue(properties[k].key) = key, 1, Len(properties))].value
    IN  IF Len(keys) = 0 THEN Undefined
        ELSE IF \E k \in 1..Len(properties) : ~IsPrimitiveLiteral(properties[k].value)
        THEN Undefined
        ELSE Some("{ " \o Join([k \in 1..Len(keys) |->
                                   keys[k] \o ": " \o StringifyValue(valueOf(keys[k]))],
                               ", ") \o " }")

normalizeDefault(raw) ==
    LET unwrapped == IF StartsWith(raw, "() =>") THEN StripArrowWrapper(raw) ELSE raw
        code == StripObjectParens(unwrapped)
        expr == Unparenthesized(code)
        type == ExpressionType(expr)
        properties == ObjectProperties(expr)
    IN  IF type = "ArrayExpression" THEN GenerateArray(expr)
        ELSE IF type = "ObjectExpression" /\ NumericArray(properties) # Undefined
        THEN NumericArray(properties)[1]
        ELSE IF type = "ObjectExpression" /\ EvaluatedObject(properties) # Undefined
        THEN EvaluatedObject(properties)[1]
        ELSE code

----------------------------------------------------------------------------
(* The declarations handed to the engine *)

\* the greatest number of entries of a declaration
MaxProps == 2

\* the greatest length of a text handed to findMatching alone
MaxScanLen == 5

\* the name of the k-th entry of a declaration
PropNames == <<"title", "count", "items", "user">>

\* An entry as it is written: the comments on the lines above it, its value
\* block, whether the block has a default field, whether it is marked
\* required: true, and whether the value is a bare constructor.
EntryForms ==
    { [comments |-> <<>>, value |-> "String",
       hasDefault |-> FALSE, required |-> FALSE, bare |-> TRUE],
      [comments |-> <<"/**\n   * Fetches the list.\n   * @param url\n   */">>,
       value |-> "{ type: Function, required: true }",
       hasDefault |-> FALSE, required |-> TRUE, bare |-> FALSE],
      [comments |-> <<"// another comment">>,
       value |-> "{\n    type: Number,\n    default: 0\n  }",
       hasDefault |-> TRUE, required |-> FALSE, bare |-> FALSE],
      [comments |-> <<"/** multi-line comment */", "// single-line comment">>,
       value |-> "{ type: Array, default: () => [1, 2] }",
       hasDefault |-> TRUE, required |-> FALSE, bare |-> FALSE],
      [comments |-> <<>>,
       value |-> "{\n    type: String,\n    required: true,\n    validator: v => [\n      'default',\n      \"big\"\n    ].includes(v),\n    default: 'big'\n  }",
       hasDefault |-> TRUE, required |-> TRUE, bare |-> FALSE],
      [comments |-> <<>>, value |-> "{ default: ^a), b: c^ }",
       hasDefault |-> TRUE, required |-> FALSE, bare |-> FALSE],
      [comments |-> <<>>,
       value |-> "{\n    type: Object,\n    default: () => ({ author: 'Unknown', date: new Date().toISOString() })\n  }",
       hasDefault |-> TRUE, required |-> FALSE, bare |-> FALSE] }

\* How the declaration is laid out: what precedes the call on its line, the
\* name it binds ("" when it binds none), and whether the entries stand one
\* per line or all on one line.
Styles ==
    { [prefix |-> "", name |-> "", lines |-> TRUE],
      [prefix |-> "const props = ", name |-> "props", lines |-> TRUE],
      [prefix |-> "\n  const p = ", name |-> "p", lines |-> FALSE] }

\* What is written around the entries: a call with an object argument, the
\* generic syntax the engine produces, a call whose parenthesis is never
\* closed, and a call whose argument is no object literal.
Shapes == {"object", "generic", "unclosed", "noObject"}

RECURSIVE SeqsUpTo(_, _)
\* the sequences of at most n members of S
SeqsUpTo(S, n) ==
    IF n = 0 THEN {<<>>}
    ELSE LET shorter == SeqsUpTo(S, n - 1)
         IN  shorter \cup {Append(q, x) : q \in {r \in shorter : Len(r) = n - 1},
                                          x \in S}

\* a comment as written above an entry: a // comment ends its line
RenderComment(c, lines) ==
    c \o (IF lines \/ StartsWith(c, "//") THEN "\n  " ELSE " ")

\* the k-th entry as written
RenderEntry(d, k) ==
    LET e == d.entries[k]
    IN  Join([c \in 1..Len(e.comments) |-> RenderComment(e.comments[c], d.style.lines)], "")
        \o PropNames[k] \o ": " \o e.value

\* A declaration: its layout, its shape, its entries, and the place of a stray
\* token (a name with no colon and no value) between two of them: 0 when
\* there is none, k when it is written before the k-th entry.
Decls ==
    { d \in [style : Styles, shape : Shapes,
             entries : SeqsUpTo(EntryForms, MaxProps), stray : 0..MaxProps] :
        /\ d.stray = 0 \/ (2 <= d.stray /\ d.stray <= Len(d.entries))
        /\ d.shape = "object" \/ (Len(d.entries) = 1 /\ d.stray = 0) }

\* the items between the braces: the entries as written, the stray token
\* among them
Items(d) ==
    LET written == [k \in 1..Len(d.entries) |-> RenderEntry(d, k)]
    IN  IF d.stray = 0 THEN written
        ELSE SubSeq(written, 1, d.stray - 1) \o <<"broken">>
             \o SubSeq(written, d.stray, Len(written))

\* the text between the braces
RenderBody(d) ==
    IF d.style.lines
    THEN "\n  " \o Join(Items(d), ",\n  ") \o "\n"
    ELSE " " \o Join(Items(d), ", ") \o " "

\* the text of declaration d
Render(d) ==
    CASE d.shape = "object"   -> d.style.prefix \o "defineProps({" \o RenderBody(d) \o "})"
      [] d.shape = "generic"  -> d.style.prefix \o "defineProps<{" \o RenderBody(d) \o "}>()"
      [] d.shape = "unclosed" -> d.style.prefix \o "defineProps({" \o RenderBody(d) \o "}"
      [] d.shape = "noObject" -> d.style.prefix \o "defineProps('{" \o RenderBody(d) \o "}')"

----------------------------------------------------------------------------
(* The engine called on a declaration *)

NoDecl == [style |-> [prefix |-> "", name |-> "", lines |-> FALSE], shape |-> "none",
           entries |-> <<>>, stray |-> 0]

NoArg == [openIdx |-> -1, open |-> "", close |-> ""]

Init ==
    /\ decl \in Decls
    /\ text = Render(decl)
    /\ pc = "ready"
    /\ arg = NoArg
    /\ found = -1
    /\ matches = <<>>
    /\ props = <<>>
    /\ output = ""

\* findMatchesDefineProps(text)
Locate ==
    /\ pc = "ready"
    /\ matches' = findMatchesDefineProps(text)
    /\ pc' = "located"
    /\ UNCHANGED <<decl, text, arg, found, props, output>>

\* extractProps on the body of the first call site located
Extract ==
    /\ pc = "located"
    /\ matches # <<>>
    /\ props' = extractProps(BodyOf(text, matches[1]))
    /\ pc' = "extracted"
    /\ UNCHANGED <<decl, text, arg, found, matches, output>>

\* convertProps(text)
Convert ==
    /\ \/ pc = "extracted"
       \/ pc = "located" /\ matches = <<>>
    /\ output' = convertProps(text)
    /\ pc' = "converted"
    /\ UNCHANGED <<decl, text, arg, found, matches, props>>

Next == Locate \/ Extract \/ Convert

Spec == Init /\ [][Next]_vars

----------------------------------------------------------------------------
(* The balanced scanner called on a text *)

RECURSIVE TextsUpTo(_, _)
\* the texts of at most n characters of A
TextsUpTo(A, n) ==
    IF n = 0 THEN {""}
    ELSE LET shorter == TextsUpTo(A, n - 1)
         IN  shorter \cup {t \o c : t \in {u \in shorter : Len(u) = n - 1}, c \in A}

ScanInit ==
    /\ decl = NoDecl
    /\ text \in TextsUpTo({"(", ")", "{", "}", "'", "\"", "\\"}, MaxScanLen)
    /\ pc = "ready"
    /\ arg = NoArg
    /\ found = -1
    /\ matches = <<>>
    /\ props = <<>>
    /\ output = ""

\* findMatching(text, openIdx, open, close) with text[openIdx] = open
Scan ==
    /\ pc = "ready"
    /\ \E openIdx \in 0..(Len(text) - 1), pair \in {<<"(", ")">>, <<"{", "}">>} :
          /\ CharAt(text, openIdx) = pair[1]
          /\ arg' = [openIdx |-> openIdx, open |-> pair[1], close |-> pair[2]]
          /\ found' = findMatching(text, openIdx, pair[1], pair[2])
    /\ pc' = "scanned"
    /\ UNCHANGED <<decl, text, matches, props, output>>

ScanNext == Scan

SpecScan == ScanInit /\ [][ScanNext]_vars

----------------------------------------------------------------------------
(* The call-site locator called on a text of several call sites *)

\* the greatest number of tokens that follow the first call of such a text
MaxTail == 4

\* the start of a call site, bound to a name or not
CallTokens == {"defineProps(", "const p = defineProps("}

LocateTexts ==
    {c \o Join(tail, "") : c \in CallTokens, tail \in SeqsUpTo((CallTokens \cup {"{}", "{", "}", ")", "'"}), MaxTail)}

LocateInit ==
    /\ decl = NoDecl
    /\ text \in LocateTexts
    /\ pc = "ready"
    /\ arg = NoArg
    /\ found = -1
    /\ matches = <<>>
    /\ props = <<>>
    /\ output = ""

LocateNext == Locate

SpecLocate == LocateInit /\ [][LocateNext]_vars

----------------------------------------------------------------------------
(* The engine called on a declaration of one entry written in full *)

\* the default field of the entry as written, "" when it has none
EntryDefaults ==
    {"", "'x'", "() => 5", "() => [1, 2]", "() => ({ a: 1 })", "() => ([1, 2])"}

\* An entry declaration: the indentation, the binding, the name, the default,
\* whether the fields of the value block stand one per line, and the comment
\* written after the value ("" when there is none; a // comment ends its
\* line).
EntryDecls ==
    {d \in [indent : {"", "  "},
            binding : {"", "const props = ", "let props = ", "var props = "},
            name : {"title", "'weird-key'", "\"some key here\"", "'super! value'"},
            default : EntryDefaults, lines : BOOLEAN,
            trailing : {"", "// note", "/* note */"}] :
        StartsWith(d.trailing, "//") => d.lines}

\* the value block of entry declaration d
RenderValue(d) ==
    LET fields == <<"type: Object">>
                  \o (IF d.default = "" THEN <<>> ELSE <<"default: " \o d.default>>)
    IN  IF d.lines
        THEN "{\n    " \o Join(fields, ",\n    ") \o "\n  }"
        ELSE "{ " \o Join(fields, ", ") \o " }"

\* the text of entry declaration d
RenderEntryDecl(d) ==
    d.indent \o d.binding \o "defineProps({"
    \o (IF d.lines THEN "\n  " ELSE " ")
    \o d.name \o ": " \o RenderValue(d)
    \o (IF d.trailing = "" THEN "" ELSE " " \o d.trailing)
    \o (IF d.lines THEN "\n" ELSE " ") \o "})"

EntryInit ==
    /\ decl \in EntryDecls
    /\ text = RenderEntryDecl(decl)
    /\ pc = "ready"
    /\ arg = NoArg
    /\ found = -1
    /\ matches = <<>>
    /\ props = <<>>
    /\ output = ""

SpecEntry == EntryInit /\ [][Next]_vars

----------------------------------------------------------------------------
(* The type inferencer called on a value block *)

\* the greatest nesting of generics in an annotation
MaxNest == 2

\* the greatest number of constructors in a bracketed list
MaxUnion == 2

\* A type field: the constructors it names, and whether they stand in
\* brackets; no name when the block has no type field.
TypeFields ==
    {[names |-> <<>>, bracketed |-> FALSE]}
    \cup {[names |-> <<c>>, bracketed |-> FALSE] : c \in {"String", "Number", "Boolean", "Array", "Object", "Function"}}
    \cup {[names |-> q, bracketed |-> TRUE] :
             q \in SeqsUpTo({"String", "Number", "Boolean"}, MaxUnion) \ {<<>>}}

\* the type expressions without generics
BaseTypes ==
    {"string", "() => void", "{ author: string; date: string }",
     "{ default: string }"}

RECURSIVE AnnotTypes(_)
\* the type expressions with at most n nested generics
AnnotTypes(n) ==
    IF n = 0 THEN BaseTypes
    ELSE AnnotTypes(n - 1) \cup {"Array<" \o t \o ">" : t \in AnnotTypes(n - 1)}

\* the default field of a value block as written, "" when it has none
ValueDefaults ==
    {"", "'x'", "1", "1.5", "true", "() => [1, 2]", "() => ({ a: 1 })",
     "() => ({ a: [1] })"}

\* A value block: its type field, the type of its PropType annotation (""
\* when it has none), its default, and whether its fields stand one per line.
ValueDecls ==
    [typeField : TypeFields, annot : {""} \cup AnnotTypes(MaxNest),
     default : ValueDefaults, lines : BOOLEAN]

\* the type field of value block d as written, with its annotation
RenderTypeField(d) ==
    LET names == IF d.typeField.bracketed
                 THEN "[" \o Join(d.typeField.names, ", ") \o "]"
                 ELSE Join(d.typeField.names, "")
        annot == "PropType<" \o d.annot \o ">"
    IN  IF d.annot = "" THEN names
        ELSE IF names = "" THEN annot
        ELSE names \o " as " \o annot

\* the text of value block d
RenderValueDecl(d) ==
    LET fields ==
            (IF RenderTypeField(d) = "" THEN <<>>
             ELSE <<"type: " \o RenderTypeField(d)>>)
            \o (IF d.default = "" THEN <<>> ELSE <<"default: " \o d.default>>)
        written == IF fields = <<>> THEN <<"required: true">> ELSE fields
    IN  IF d.lines
        THEN "{\n    " \o Join(written, ",\n    ") \o "\n  }"
        ELSE "{ " \o Join(written, ", ") \o " }"

InferInit ==
    /\ decl \in ValueDecls
    /\ text = RenderValueDecl(decl)
    /\ pc = "ready"
    /\ arg = NoArg
    /\ found = -1
    /\ matches = <<>>
    /\ props = <<>>
    /\ output = ""

\* the definition convertProps builds for an entry whose value block is text:
\* its default extracted, its type inferred
Infer ==
    /\ pc = "ready"
    /\ props' = <<ParseProp([name |-> "value", value |-> text, comment |-> Undefined])>>
    /\ output' = props'[1].type
    /\ pc' = "inferred"
    /\ UNCHANGED <<decl, text, arg, found, matches>>

SpecInfer == InferInit /\ [][Infer]_vars

----------------------------------------------------------------------------
(* normalizeDefault called on a default as written *)

\* the greatest index written as a key of an object literal
MaxIndex == 2

\* the keys of an object literal with index keys: each index at most once, in
\* any order
KeySeqs ==
    {q \in SeqsUpTo(0..MaxIndex, MaxIndex + 1) :
        q # <<>> /\ \A i, j \in 1..Len(q) : i # j => q[i] # q[j]}

\* the value written for the k-th property of such a literal
ValueTexts == <<"'a'", "'b'", "'c'", "'d'", "'e'">>

\* A default: an object literal with index keys (written as numbers, or as
\* quoted digits) or another text, written after `() =>` or not, in
\* parentheses or not.
DefaultDecls ==
    [closure : BOOLEAN, parens : BOOLEAN,
     literal : {[keys |-> q, quoted |-> b, other |-> ""] :
                   q \in KeySeqs, b \in BOOLEAN}
               \cup {[keys |-> <<>>, quoted |-> FALSE, other |-> o] :
                        o \in {"{ a: 1, b: \"x\" }", "[1,2,3]", "[1, 2]", "5", "'x'", "foo()"}}]

\* the index i written as a key
RenderKey(i, quoted) ==
    LET digits == CharAt("0123456789", i)
    IN  IF quoted THEN "'" \o digits \o "'" ELSE digits

\* the literal of default d as written
RenderLiteral(l) ==
    IF l.keys = <<>> THEN l.other
    ELSE "{ " \o Join([k \in 1..Len(l.keys) |->
                          RenderKey(l.keys[k], l.quoted) \o ": " \o ValueTexts[k]],
                      ", ") \o " }"

\* the text of default d
RenderDefault(d) ==
    LET l == RenderLiteral(d.literal)
    IN  (IF d.closure THEN "() => " ELSE "")
        \o (IF d.parens THEN "(" \o l \o ")" ELSE l)

DefaultInit ==
    /\ decl \in DefaultDecls
    /\ text = RenderDefault(decl)
    /\ pc = "ready"
    /\ arg = NoArg
    /\ found = -1
    /\ matches = <<>>
    /\ props = <<>>
    /\ output = ""

\* normalizeDefault(text)
Normalize ==
    /\ pc = "ready"
    /\ output' = normalizeDefault(text)
    /\ pc' = "normalized"
    /\ UNCHANGED <<decl, text, arg, found, matches, props>>

SpecDefault == DefaultInit /\ [][Normalize]_vars

----------------------------------------------------------------------------
(* findObjectDefineProps: the locator of the AST-based converter, which
   parses the text before it looks for call sites *)

\* a parenthesis or brace of t that is never closed: no program has one
UnclosedBracket(t) ==
    \E q \in 0..(Len(t) - 1) :
        \/ CharAt(t, q) = "(" /\ findMatching(t, q, "(", ")") = -1
        \/ CharAt(t, q) = "{" /\ findMatching(t, q, "{", "}") = -1

\* what babel.parse(scriptContent) does: it throws a SyntaxError on a text
\* that is no program, and hands back the tree of a program.  A text with an
\* unclosed bracket is no program; whether another text is one is left open.
ParseOutcomes(t) ==
    IF UnclosedBracket(t) THEN {"SyntaxError"} ELSE {"SyntaxError", "File"}

\* lines 82-85, called at line 126 with no handler around the call: the
\* error of the parser leaves findObjectDefineProps and convertProps
ParseScript ==
    /\ pc = "ready"
    /\ \E outcome \in ParseOutcomes(text) :
          pc' = IF outcome = "SyntaxError" THEN "raised" ELSE "parsed"
    /\ UNCHANGED <<decl, text, arg, found, matches, props, output>>

SpecParse == LocateInit /\ [][ParseScript]_vars

----------------------------------------------------------------------------
(* The name the AST-based converter gives to a key as written *)

\* the greatest number of words in a key
MaxWords == 2

\* lines 156-166: the name of an identifier key, and the normalized value of
\* a string-literal key
PropKeyName(key) ==
    IF CharAt(key, 0) \in {"'", "\""}
    THEN normalizePropKey(Slice(key, 1, Len(key) - 1))
    ELSE key

\* A key: at most MaxWords words joined by nothing, a hyphen or a space,
\* written in quotes, or without quotes when it is an identifier.
KeyInit ==
    /\ decl \in {d \in [key : {Join(ws, sep) :
                                 ws \in SeqsUpTo({"foo", "Bar", "key9"}, MaxWords) \ {<<>>},
                                 sep \in {"", "-", " "}},
                        quote : {"", "'", "\""}] :
                    d.quote = "" => SkipSet(d.key, 0, IdentChars) = Len(d.key)}
    /\ text = decl.quote \o decl.key \o decl.quote
    /\ pc = "ready"
    /\ arg = NoArg
    /\ found = -1
    /\ matches = <<>>
    /\ props = <<>>
    /\ output = ""

\* the name convertProps takes for the key
NameKey ==
    /\ pc = "ready"
    /\ output' = PropKeyName(text)
    /\ pc' = "named"
    /\ UNCHANGED <<decl, text, arg, found, matches, props>>

SpecKey == KeyInit /\ [][NameKey]_vars

----------------------------------------------------------------------------
(* The outer loop of extractProps, one iteration at a time *)

\* the greatest number of tokens in a body
MaxTokens == 3

\* lines 584-585: i = 0 and out = [] before the loop, on a body of at most
\* MaxTokens pieces: an entry, a spread, lines without a colon, strings and
\* block comments that are not closed, a value on its own
ExtractInit ==
    /\ text \in {Join(ts, "") :
                   ts \in SeqsUpTo({"a: 1,", "...r\n", "'k", "\"b\\", "/* x",
                                    "/* y */", "// c\n", ": [2", " "},
                                   MaxTokens)}
    /\ decl = NoDecl
    /\ pc = "walking"
    /\ arg = NoArg
    /\ found = 0
    /\ matches = <<>>
    /\ props = <<>>
    /\ output = ""

\* lines 587-707: the test of the loop and one iteration; found is i and props
\* is out
ExtractStep ==
    /\ pc = "walking"
    /\ IF found >= Len(text)
       THEN pc' = "walked" /\ UNCHANGED <<found, props>>
       ELSE LET s == extractPropsStep(text, found, props)
            IN  /\ found' = s.i
                /\ props' = s.out
                /\ pc' = IF s.done THEN "walked" ELSE "walking"
    /\ UNCHANGED <<decl, text, arg, matches, output>>

SpecExtract == ExtractInit /\ [][ExtractStep]_vars

----------------------------------------------------------------------------
(* Calls of the engine, one after the other *)

\* the greatest number of calls
MaxCalls == 3

\* no call was made yet; props holds the calls made, with their results
CallsInit ==
    /\ decl = NoDecl
    /\ text = ""
    /\ pc = "idle"
    /\ arg = NoArg
    /\ found = -1
    /\ matches = <<>>
    /\ props = <<>>
    /\ output = ""

\* a call of findMatchesDefineProps and one of convertProps on a text: one
\* without a call site, with one or with two
Call ==
    /\ pc = "idle"
    /\ Len(props) < MaxCalls
    /\ \E t \in {"",
                 "const x = 1",
                 "defineProps<{ a: string }>()",
                 "const props = defineProps({ title: String })",
                 "defineProps({ n: { type: Number, default: 1 } })\nlet p = defineProps({ b: Boolean })"} :
          /\ text' = t
          /\ matches' = findMatchesDefineProps(t)
          /\ output' = convertProps(t)
          /\ props' = Append(props, [text |-> t, matches |-> matches',
                                     output |-> output'])
    /\ UNCHANGED <<decl, pc, arg, found>>

SpecCalls == CallsInit /\ [][Call]_vars

----------------------------------------------------------------------------
(* propFixProvider.provideCodeActions: the edit of the quick fix *)

\* the greatest number of uses of a binding in a document
MaxUses == 2

\* /<script\b(?=[^>]*\bsetup\b)(?=[^>]*\blang=["']ts["'])/.test(t)
isScriptSetupTs(t) ==
    \E p \in 0..Len(t) :
       /\ StartsWithAt(t, "<script", p)
       /\ WordBoundary(t, p + 7)
       /\ LET gt == IndexOf(t, ">", p + 7)
              tagEnd == IF gt = -1 THEN Len(t) ELSE gt
          IN  /\ \E a \in (p + 7)..(tagEnd - 5) :
                    /\ WordBoundary(t, a)
                    /\ StartsWithAt(t, "setup", a)
                    /\ WordBoundary(t, a + 5)
              /\ \E b \in (p + 7)..(tagEnd - 9) :
                    /\ WordBoundary(t, b)
                    /\ StartsWithAt(t, "lang=", b)
                    /\ CharAt(t, b + 5) \in NameQuotes
                    /\ StartsWithAt(t, "ts", b + 6)
                    /\ CharAt(t, b + 8) \in NameQuotes

\* \s*\}\s*=\s*defineProps at position e of r
PatternEndAt(r, e) ==
    LET c == SkipSpace(r, e)
        q == SkipSpace(r, c + 1)
    IN  /\ CharAt(r, c) = "}"
        /\ CharAt(r, q) = "="
        /\ StartsWithAt(r, "defineProps", SkipSpace(r, q + 1))

\* replacement.match(/\{\s*([\s\S]*?)\s*\}\s*=\s*defineProps/): the group, or
\* Undefined when there is no match
PropsMatch(r) ==
    LET p == First(LAMBDA k : /\ CharAt(r, k) = "{"
                              /\ \E e \in (k + 1)..Len(r) : PatternEndAt(r, e),
                   0, Len(r) - 1)
        a == SkipSpace(r, p + 1)
        e == First(LAMBDA k : PatternEndAt(r, k), a, Len(r))
    IN  IF p = -1 THEN Undefined
        ELSE IF e = -1 THEN Some("")
        ELSE Some(Slice(r, a, e))

\* /\b([A-Za-z0-9_$]+)\b(?=\s*(?:=|,|$))/ anchored at s: the end of the
\* match, the longest one, or -1
UsedNameAt(g, s) ==
    IF ~WordBoundary(g, s) \/ CharAt(g, s) \notin IdentChars THEN -1
    ELSE Last(LAMBDA e : /\ WordBoundary(g, e)
                         /\ LET k == SkipSpace(g, e)
                            IN  CharAt(g, k) \in {"=", ","} \/ k >= Len(g),
              s + 1, SkipSet(g, s, IdentChars))

RECURSIVE PropsUsed(_, _)
\* lines 155-159: the names the loop over regex.exec adds to propsUsed, with
\* lastIndex = from
PropsUsed(g, from) ==
    LET s == First(LAMBDA k : UsedNameAt(g, k) # -1, from, Len(g) - 1)
    IN  IF s = -1 THEN {}
        ELSE {Slice(g, s, UsedNameAt(g, s))} \cup PropsUsed(g, UsedNameAt(g, s))

\* lines 173-189: the replacements of `props.<name>` by the name, each with
\* the span it replaces
RenameEdits(doc, used) ==
    {[start |-> k, end |-> k + 6 + Len(prop), newText |-> prop] :
        <<k, prop>> \in {x \in (0..Len(doc)) \X used :
                            /\ WordBoundary(doc, x[1])
                            /\ StartsWithAt(doc, "props." \o x[2], x[1])
                            /\ WordBoundary(doc, x[1] + 6 + Len(x[2]))}}

\* A document with the diagnostic of its declaration.  decl says whether the
\* script block is a TypeScript one, the name the declaration binds, the
\* entries of the declaration, and the lines that follow it, each a use of a
\* name; the diagnostics of a document that is no TypeScript one are those of
\* an earlier text.
FixInit ==
    /\ decl \in
          [ts : BOOLEAN,
           binding : {"props", "p"},
           entries : {<<"title: String">>,
                      <<"count: { type: Number, default: 1 }">>,
                      <<"title: String", "count: { type: Number, default: 1 }">>,
                      <<"size: { type: Number, default: limit }", "title: String">>},
           uses : SeqsUpTo({"props.title", "p.title", "p.count", "props.limit",
                            "props.titles"}, MaxUses)]
    /\ text = (IF decl.ts THEN "<script setup lang=\"ts\">\n" ELSE "<script setup>\n")
              \o "const " \o decl.binding \o " = defineProps({ "
              \o Join(decl.entries, ", ") \o " })\n"
              \o Join([k \in 1..Len(decl.uses) |-> "use(" \o decl.uses[k] \o ")\n"], "")
              \o "</script>\n"
    /\ pc = "diagnosed"
    /\ arg = NoArg
    /\ found = -1
    /\ matches = findMatchesDefineProps(text)
    /\ props = {}
    /\ output = ""

\* lines 133-193, for the diagnostic of the declaration: output is the
\* replacement of the span of the diagnostic and props the other replacements
\* of the edit
provideCodeActions ==
    /\ pc = "diagnosed"
    /\ Len(matches) = 1
    /\ IF ~isScriptSetupTs(text)
       THEN pc' = "skipped" /\ UNCHANGED <<output, props>>
       ELSE LET Used(propsMatch) ==
                    IF propsMatch # Undefined /\ propsMatch[1] # ""
                    THEN PropsUsed(propsMatch[1], 0) ELSE {}
                Fix(replacement) ==
                    /\ output' = replacement
                    /\ props' = RenameEdits(text, Used(PropsMatch(replacement)))
                    /\ pc' = "fixed"
            IN  Fix(convertProps(Slice(text, matches[1].start, matches[1].end)))
    /\ UNCHANGED <<decl, text, arg, found, matches>>

SpecFix == FixInit /\ [][provideCodeActions]_vars

----------------------------------------------------------------------------
(* scanDocument: the diagnostics kept for a document *)

\* the greatest number of scans of the document
MaxScans == 2

\* parse(text).descriptor.scriptSetup: the content of the script block whose
\* tag has the attribute setup and the offset at which the content starts,
\* or Undefined when the text has no such block
ScriptSetup(t) ==
    LET p == First(LAMBDA k :
                      /\ StartsWithAt(t, "<script", k)
                      /\ WordBoundary(t, k + 7)
                      /\ \E a \in (k + 7)..(IndexOf(t, ">", k) - 5) :
                            /\ WordBoundary(t, a)
                            /\ StartsWithAt(t, "setup", a)
                            /\ WordBoundary(t, a + 5),
                   0, Len(t) - 1)
        gt == IndexOf(t, ">", p)
        close == IndexOf(t, "</script>", gt)
    IN  IF p = -1 \/ gt = -1 \/ close = -1 THEN Undefined
        ELSE <<[offset |-> gt + 1, content |-> Slice(t, gt + 1, close)]>>

\* The nodes findObjectDefineProps hands back for the content of a script
\* block, each with its start and its end.  The contents scanned here are
\* programs whose calls of defineProps stand alone or in a const declaration:
\* the nodes the traversal of their tree pushes, the declaration when the
\* call is assigned and the call otherwise, span what findMatchesDefineProps
\* locates.
findObjectDefineProps(scriptContent) ==
    LET Nodes(sites) ==
            [k \in 1..Len(sites) |-> [start |-> sites[k].start, end |-> sites[k].end]]
    IN  Nodes(findMatchesDefineProps(scriptContent))

\* extension.ts lines 18-26: the collection is created empty; found counts
\* the scans made, decl holds the language of the document
WatchInit ==
    /\ decl \in [languageId : {"vue", "typescript"}]
    /\ text = ""
    /\ pc = "activated"
    /\ arg = NoArg
    /\ found = 0
    /\ matches = <<>>
    /\ props = <<>>
    /\ output = ""

\* scanDocument(doc, diagnostics), called by the initial scan and on the
\* events that a document was opened or changed, on the text the document has
\* then; matches holds the diagnostics the collection keeps for the document
scanDocument ==
    /\ found < MaxScans
    /\ found' = found + 1
    /\ pc' = "scanned"
    /\ \E header \in {"<script setup lang=\"ts\">", "<script lang='ts' setup>",
                      "<script setup>", "<script lang=\"ts\">"},
          body \in {"",
                    "defineProps<{}>()\n",
                    "defineProps({ a: 1 })\n",
                    "const p = defineProps({})\n",
                    "const p = defineProps({})\ndefineProps({ b: 1 })\n"} :
          LET Diagnostics(offset, nodes) ==
                  [k \in 1..Len(nodes) |-> [start |-> offset + nodes[k].start,
                                            end |-> offset + nodes[k].end,
                                            code |-> "props.TypeSyntax"]]
              Scanned(t, scriptSetup) ==
                  /\ text' = t
                  /\ IF decl.languageId # "vue" THEN UNCHANGED matches
                     ELSE IF scriptSetup = Undefined \/ ~isScriptSetupTs(t)
                     THEN UNCHANGED matches
                     ELSE matches' =
                             Diagnostics(scriptSetup[1].offset,
                                         findObjectDefineProps(scriptSetup[1].content))
              Document(t) == Scanned(t, ScriptSetup(t))
          IN  Document(header \o "\n" \o body \o "</script>\n")
    /\ UNCHANGED <<decl, arg, props, output>>

SpecWatch == WatchInit /\ [][scanDocument]_vars

----------------------------------------------------------------------------
(* What the declaration says, and where the output says it *)

\* extractProps returned the k-th entry of the declaration as it is written
AsWritten(k) ==
    /\ k <= Len(props)
    /\ props[k].name = PropNames[k]
    /\ props[k].value = decl.entries[k].value

\* extractProps returned the entries of the declaration, each as written
ExtractedAsWritten ==
    /\ Len(props) = Len(decl.entries)
    /\ \A k \in 1..Len(decl.entries) : AsWritten(k)

\* the lines of the type block of the output, trimmed: the lines after the
\* line that opens the block
TypeBlock ==
    LET lines == Split(output, "\n")
        head == First(LAMBDA i : Includes(lines[i], "defineProps<{"), 1, Len(lines))
    IN  [i \in 1..(Len(lines) - head) |-> Trim(lines[head + i])]

\* the lines of the type block tb that declare name, optional or not
OptionalLines(tb, name) == {i \in DOMAIN tb : StartsWith(tb[i], name \o "?: ")}

RequiredLines(tb, name) == {i \in DOMAIN tb : StartsWith(tb[i], name \o ": ")}

\* what the output writes before defineProps<{
Binding == Slice(output, 0, IndexOf(output, "defineProps<{", 0))

StripComma(s) ==
    IF Len(s) > 0 /\ CharAt(s, Len(s) - 1) = "," THEN Slice(s, 0, Len(s) - 1) ELSE s

\* the parts of the destructuring pattern of the output, <<>> when the
\* binding is no pattern
BindingParts ==
    LET lines == Split(Binding, "\n")
        open == IndexOf(Binding, "{ ", 0)
    IN  IF Len(lines) > 2
        THEN [k \in 1..(Len(lines) - 2) |-> StripComma(Trim(lines[k + 1]))]
        ELSE IF open # -1
        THEN <<Slice(Binding, open + 2, Len(Binding) - 5)>>
        ELSE <<>>

\* the comments of entry e as extractProps is to return them
JoinedComments(e) == Join(e.comments, "\n")

\* the lines of the comment of props[j] stand, trimmed, right above line i
\* of the type block tb
CommentAbove(tb, j, i) ==
    LET cl == Split(props[j].comment[1], "\n")
    IN  /\ i - Len(cl) >= 1
        /\ \A c \in 1..Len(cl) : tb[i - Len(cl) + c - 1] = Trim(cl[c])

RECURSIVE OutsideQuotes(_, _, _, _)
\* the positions of t in i..last outside every quoted region, where q is the
\* quote that is open at i ("" when none is): a region runs from a quote to
\* the next quote of the same kind that no backslash precedes
OutsideQuotes(t, i, q, last) ==
    IF i > last THEN {}
    ELSE IF q # "" THEN
        IF CharAt(t, i) = "\\" THEN OutsideQuotes(t, i + 2, q, last)
        ELSE IF CharAt(t, i) = q THEN OutsideQuotes(t, i + 1, "", last)
        ELSE OutsideQuotes(t, i + 1, q, last)
    ELSE IF CharAt(t, i) \in Quotes THEN OutsideQuotes(t, i + 1, CharAt(t, i), last)
    ELSE {i} \cup OutsideQuotes(t, i + 1, "", last)

\* the positions of c in a..b of the scanned text outside quoted regions
Brackets(c, a, b) ==
    {p \in OutsideQuotes(text, a, "", b) : CharAt(text, p) = c}

----------------------------------------------------------------------------
(* The claims *)

\* C1: when the text holds no object-style defineProps call site, convert
\* returns the text unchanged.
C1_NoCallSiteUnchanged ==
    (pc = "converted" /\ (matches = <<>> \/ decl.shape # "object"))
        => output = text

C1_Witness ==
    /\ pc = "converted"
    /\ decl.shape = "unclosed"
    /\ Includes(text, "defineProps({")
    /\ matches = <<>>
    /\ output = text

\* C2: for a well-formed body of N entries, whose values may hold nested
\* brackets, commas and strings in single quotes, double quotes or backticks,
\* extract returns exactly N entries.
C2_EntryCount ==
    (/\ pc = "extracted"
     /\ decl.stray = 0
     /\ \A k \in 1..Len(decl.entries) : decl.entries[k].comments = <<>>)
        => Len(props) = Len(decl.entries)

\* C3: when findMatching(t, a, open, close) returns b # -1, then b > a, t[b]
\* is close and lies outside every quoted region, and a..b holds as many open
\* as close characters outside quoted regions.
C3_Balanced ==
    (pc = "scanned" /\ found # -1)
        => /\ found > arg.openIdx
           /\ CharAt(text, found) = arg.close
           /\ found \in OutsideQuotes(text, arg.openIdx, "", found)
           /\ Cardinality(Brackets(arg.open, arg.openIdx, found))
                = Cardinality(Brackets(arg.close, arg.openIdx, found))

C3_Witness ==
    /\ pc = "scanned"
    /\ found # -1
    /\ \E p \in (arg.openIdx + 1)..(found - 1) :
          /\ CharAt(text, p) = arg.close
          /\ p \notin OutsideQuotes(text, arg.openIdx, "", found)

\* C4: in the type block, the line of an entry carries ? right after the name
\* exactly when the entry has a default or is not marked required: true; an
\* entry with both required: true and a default is optional.
C4_OptionalMarker ==
    (pc = "converted" /\ decl.shape = "object" /\ ExtractedAsWritten)
        => LET tb == TypeBlock IN
           \A k \in 1..Len(decl.entries) :
              LET e == decl.entries[k]
                  optional == e.hasDefault \/ ~e.required
              IN  /\ Cardinality(OptionalLines(tb, PropNames[k]))
                       = IF optional THEN 1 ELSE 0
                  /\ Cardinality(RequiredLines(tb, PropNames[k]))
                       = IF optional THEN 0 ELSE 1

\* C5: when an entry has a default, the binding is a destructuring pattern
\* that lists every entry name once, in the order of the entries, with
\* "= <default>" on exactly the entries that have a default.
C5_DestructuredDefaults ==
    (/\ pc = "converted"
     /\ decl.shape = "object"
     /\ decl.stray = 0
     /\ ExtractedAsWritten
     /\ \E k \in 1..Len(decl.entries) : decl.entries[k].hasDefault)
        => LET parts == BindingParts IN
           /\ Len(parts) = Len(decl.entries)
           /\ \A k \in 1..Len(decl.entries) :
                 IF decl.entries[k].hasDefault
                 THEN StartsWith(parts[k], PropNames[k] \o " = ")
                 ELSE parts[k] = PropNames[k]

\* C6: when no entry has a default, the binding is a single identifier (the
\* variable name of the declaration, props when it has none), not a pattern.
C6_SingleIdentifier ==
    (/\ pc = "converted"
     /\ decl.shape = "object"
     /\ decl.stray = 0
     /\ ExtractedAsWritten
     /\ Len(decl.entries) >= 1
     /\ \A k \in 1..Len(decl.entries) : ~decl.entries[k].hasDefault)
        => Trim(Binding) =
              "const " \o (IF decl.style.name # "" THEN decl.style.name ELSE "props")
              \o " ="

\* C7: an entry whose value is a bare constructor name is rendered as
\* "name?: <mapped type>" and gets no default in the binding.
C7_BareConstructor ==
    (/\ pc = "converted"
     /\ decl.shape = "object"
     /\ decl.stray = 0
     /\ ExtractedAsWritten)
        => LET tb == TypeBlock
               parts == BindingParts
           IN
           \A k \in 1..Len(decl.entries) :
              decl.entries[k].bare =>
                 /\ \E i \in OptionalLines(tb, PropNames[k]) :
                       tb[i] = PropNames[k] \o "?: "
                                 \o normalizeType(decl.entries[k].value)
                 /\ \A b \in 1..Len(parts) :
                       ~StartsWith(parts[b], PropNames[k] \o " = ")

\* C8: every line of the comment extract returned for an entry stands,
\* trimmed and in order, right above the type line of that entry.
C8_CommentRoundTrip ==
    (pc = "converted" /\ matches # <<>>)
        => LET tb == TypeBlock IN
           \A j \in 1..Len(props) :
              props[j].comment # Undefined =>
                 \E i \in OptionalLines(tb, props[j].name)
                            \cup RequiredLines(tb, props[j].name) :
                    CommentAbove(tb, j, i)

C8_Witness ==
    /\ pc = "converted"
    /\ \E j \in 1..Len(props) :
          /\ props[j].comment # Undefined
          /\ Len(Split(props[j].comment[1], "\n")) = 4
          /\ \E i \in RequiredLines(TypeBlock, props[j].name) :
                CommentAbove(TypeBlock, j, i)

\* C9: a malformed entry (a name with no colon and value) between two
\* well-formed entries, on one line or on separate lines, is left out, and
\* the two well-formed entries are returned with their values.
C9_MalformedSkipped ==
    (/\ pc = "extracted"
     /\ decl.stray # 0
     /\ \A k \in 1..Len(decl.entries) :
           /\ decl.entries[k].comments = <<>>
           /\ ~Includes(decl.entries[k].value, BackTick))
        => ExtractedAsWritten

\* C10: the consecutive comments written right above an entry are all
\* attached to it, joined by newlines in their order.
C10_ConsecutiveComments ==
    (pc = "extracted" /\ decl.stray = 0)
        => \A k \in 1..Len(decl.entries) :
              (AsWritten(k) /\ Len(decl.entries[k].comments) >= 2)
                 => props[k].comment = Some(JoinedComments(decl.entries[k]))

\* position b of the scanned text holds the bracket close that balances the
\* bracket open at position a: both are outside quoted regions read from a,
\* a..b holds as many open as close, and no shorter span from a does
Balances(open, close, a, b) ==
    LET out == OutsideQuotes(text, a, "", b)
        opens(e) == Cardinality({p \in out : p <= e /\ CharAt(text, p) = open})
        closes(e) == Cardinality({p \in out : p <= e /\ CharAt(text, p) = close})
    IN  /\ a < b
        /\ CharAt(text, a) = open
        /\ b \in out
        /\ CharAt(text, b) = close
        /\ opens(b) = closes(b)
        /\ \A e \in a..(b - 1) : opens(e) > closes(e)

\* C11: every match has 0 <= start < openBrace < closeBrace < end - 1 <
\* Len(text); openBrace holds "{", closeBrace holds "}", end - 1 holds the ")"
\* that matches the "(" of the call; prefix is the text from start to that
\* "(" and holds "const <name> =" when the call is bound.
C11_MatchPositions ==
    pc = "located" =>
       \A k \in 1..Len(matches) :
          LET m == matches[k]
              openParen == m.start + Len(m.prefix)
          IN  /\ 0 <= m.start
              /\ m.start < m.openBrace
              /\ m.openBrace < m.closeBrace
              /\ m.closeBrace < m.end - 1
              /\ m.end - 1 < Len(text)
              /\ CharAt(text, m.openBrace) = "{"
              /\ CharAt(text, m.closeBrace) = "}"
              /\ m.prefix = Slice(text, m.start, openParen)
              /\ openParen < m.openBrace
              /\ Balances("(", ")", openParen, m.end - 1)
              /\ StartsWithAt(text, "const p = ", m.start)
                    => StartsWith(m.prefix, "const p =")

C11_Witness ==
    /\ pc = "located"
    /\ Len(matches) = 2
    /\ matches[1].start = 0
    /\ matches[2].prefix = "const p = defineProps"
    /\ \A k \in 1..2 :
          Balances("(", ")", matches[k].start + Len(matches[k].prefix),
                   matches[k].end - 1)

\* the positions of the scanned text at which a call defineProps( starts
CallPositions ==
    {c \in 0..(Len(text) - 1) : StartsWithAt(text, "defineProps(", c)}

\* the call at position c, read in the text that starts at c, passes every
\* sub-scan
WellFormedAlone(c) ==
    LET alone == findMatchesDefineProps(SliceFrom(text, c))
    IN  alone # <<>> /\ alone[1].start = 0

\* C12: the matches come in strictly increasing order of start, one for each
\* call that passes the sub-scans: a call that is dropped neither suppresses
\* nor alters the match of another call of the text.
C12_EachCallOnItsOwn ==
    pc = "located" =>
       /\ \A k \in 1..(Len(matches) - 1) : matches[k].start < matches[k + 1].start
       /\ \A c \in CallPositions :
             LET alone == findMatchesDefineProps(SliceFrom(text, c))
                 here == {k \in 1..Len(matches) :
                             matches[k].start + Len(matches[k].prefix) = c + 11}
             IN  IF alone # <<>> /\ alone[1].start = 0
                 THEN /\ Cardinality(here) = 1
                      /\ \A k \in here :
                            /\ matches[k].openBrace = c + alone[1].openBrace
                            /\ matches[k].closeBrace = c + alone[1].closeBrace
                            /\ matches[k].end = c + alone[1].end
                 ELSE here = {}

C12_Witness ==
    /\ pc = "located"
    /\ Cardinality(CallPositions) = 3
    /\ Len(matches) = 1
    /\ \E c \in CallPositions :
          /\ ~WellFormedAlone(c)
          /\ \E d \in CallPositions : d > c /\ WellFormedAlone(d)
    /\ \E c \in CallPositions :
          /\ ~WellFormedAlone(c)
          /\ \E d \in CallPositions : d < c /\ WellFormedAlone(d)


\* the name of the entry declaration: a string literal, and the text it quotes
IsQuoted(name) == CharAt(name, 0) \in Quotes

Quoted(name) == IF IsQuoted(name) THEN Slice(name, 1, Len(name) - 1) ELSE name

\* s can be written as a name without quotes
BareIdentifier(s) ==
    /\ s # ""
    /\ CharAt(s, 0) \notin Digits
    /\ SkipSet(s, 0, IdentChars) = Len(s)

\* the default the output writes for its first name: what follows " = " in the
\* first part of its pattern, <<>> when the part has none
RenderedDefault ==
    LET parts == BindingParts
        eq == IndexOf(parts[1], " = ", 0)
    IN  IF parts = <<>> THEN Undefined
        ELSE IF eq = -1 THEN Undefined
        ELSE Some(SliceFrom(parts[1], eq + 3))

\* C13: an entry whose name is written as a string literal that is no bare
\* identifier is declared in the output under the lower-camel-case name made
\* of the alphanumeric runs of the literal ('weird-key' gives weirdKey).
C13_QuotedNameCamelCase ==
    (pc = "converted" /\ IsQuoted(decl.name) /\ ~BareIdentifier(Quoted(decl.name)))
    => LET tb == TypeBlock
           key == normalizePropKey(Quoted(decl.name))
       IN  OptionalLines(tb, key) \cup RequiredLines(tb, key) # {}

\* E without the parentheses around a brace or bracket literal
WithoutParens(e) ==
    LET inner == Trim(Slice(e, 1, Len(e) - 1))
    IN  IF /\ StartsWith(e, "(")
           /\ findMatching(e, 0, "(", ")") = Len(e) - 1
           /\ StartsWith(inner, "{") \/ StartsWith(inner, "[")
        THEN inner
        ELSE e

\* C14: the default written for an entry whose default field is () => E is E
\* without the closure wrapper, and without the parentheses when E is a brace
\* or bracket literal in parentheses.
C14_ClosureDefaultUnwrapped ==
    (pc = "converted" /\ StartsWith(decl.default, "() => "))
    => RenderedDefault = Some(WithoutParens(SliceFrom(decl.default, 6)))

\* C19: no operation of the engine raises, whatever text it is called on.
C19_NoOperationRaises == pc # "raised"

\* the keyword the declaration is written with, "const" when it binds nothing
WrittenKeyword ==
    IF decl.binding = "" THEN "const"
    ELSE Slice(decl.binding, 0, IndexOf(decl.binding, " ", 0))

\* C20: the replacement starts with the white space that leads the line of the
\* call site, and what it binds it binds with the keyword of the declaration
\* (const when the declaration has none).
C20_IndentAndKeyword ==
    pc = "converted"
    => LET bound == SliceFrom(Binding, Len(decl.indent))
       IN  /\ StartsWith(output, decl.indent)
           /\ CharAt(output, Len(decl.indent)) \notin WhiteSpace
           /\ bound # "" => StartsWith(bound, WrittenKeyword \o " ")

\* the union of the types the constructors of names map to, in list order
MappedUnion(names) ==
    Join([k \in 1..Len(names) |-> normalizeType(names[k])], " | ")

\* the type the literal shape of default field def stands for
ShapeType(def) ==
    CASE def = "'x'"              -> "string"
      [] def = "1"                -> "number"
      [] def = "true"             -> "boolean"
      [] def = "() => [1, 2]"     -> "any[]"
      [] def = "1.5"              -> "number"
      [] def = "() => ({ a: 1 })" -> "Record<string, any>"
      [] def = "() => ({ a: [1] })" -> "Record<string, any>"
      [] OTHER                    -> "any"

C17_TypeFieldUnion ==
    (pc = "inferred" /\ decl.annot = "" /\ decl.typeField.names # <<>>)
    => output = MappedUnion(decl.typeField.names)

\* C18: the inferred type is the content of the annotation when the block has
\* one; otherwise the mapped type of the type field when it has one; only
\* otherwise the type of the literal shape of the default.
C18_InferencePriority ==
    pc = "inferred"
    => output = IF decl.annot # "" THEN decl.annot
                ELSE IF decl.typeField.names # <<>>
                THEN MappedUnion(decl.typeField.names)
                ELSE ShapeType(decl.default)

\* the keys of the literal are exactly the indexes 0..n
DenseKeys(keys) == {keys[k] : k \in 1..Len(keys)} = 0..(Len(keys) - 1)

\* the values of the literal in the order of their keys
ValuesByKey(keys) ==
    [i \in 1..Len(keys) |->
        ValueTexts[First(LAMBDA k : keys[k] = i - 1, 1, Len(keys))]]

\* C15: normalizeDefault turns an object literal whose keys are exactly the
\* indexes 0..n, in any order, into the array literal of its values ordered by
\* key, and turns an object literal whose index keys are not the dense range
\* 0..n into no array.
C15_NumericKeysToArray ==
    (pc = "normalized" /\ decl.literal.keys # <<>>)
    => IF DenseKeys(decl.literal.keys)
       THEN output = "[" \o Join(ValuesByKey(decl.literal.keys), ", ") \o "]"
       ELSE ~StartsWith(output, "[")

\* the entries of the pattern as the formatter is to write them, one for each
\* entry extracted
PatternEntries ==
    [k \in 1..Len(props) |-> DestructurePart(ParseProp(props[k]))]

\* C21: the destructuring pattern of the output is written on several lines,
\* one entry per line, exactly when its entries joined by ", " are longer than
\* 60 characters or there is more than one entry; otherwise it is written on
\* one line as { <entry> }.
C21_MultilineLayout ==
    (pc = "converted" /\ matches # <<>> /\ props # <<>>)
    => LET parts == PatternEntries
           ind == IndentOf(text, matches[1].start)
           several == Len(Join(parts, ", ")) > 60 \/ Len(parts) > 1
           written == IF several
                      THEN " {\n"
                           \o Join([k \in 1..Len(parts) |-> ind \o "  " \o parts[k] \o ","],
                                   "\n")
                           \o "\n" \o ind \o "} = "
                      ELSE " { " \o parts[1] \o " } = "
       IN  \E kw \in {"const", "let", "var"} : Binding = ind \o kw \o written

\* a declaration of one entry whose pattern entry is longer than 60
\* characters was converted
C21_Witness ==
    /\ pc = "converted"
    /\ Len(props) = 1
    /\ Len(PatternEntries[1]) > 60
    /\ Includes(Binding, "{\n")

\* the depth after position k of the scanned text: the open characters less
\* the close characters from the open position on, outside quoted regions
DepthAfter(k) ==
    Cardinality(Brackets(arg.open, arg.openIdx, k))
    - Cardinality(Brackets(arg.close, arg.openIdx, k))

\* C25: findMatching returns the least index after the open position at which
\* the depth, counted outside quoted regions only, is back at zero, and
\* returns -1 exactly when there is no such index.
C25_LeastReturnToZero ==
    pc = "scanned"
    => LET zeros == {k \in (arg.openIdx + 1)..(Len(text) - 1) : DepthAfter(k) = 0}
       IN  IF zeros = {} THEN found = -1
           ELSE found \in zeros /\ \A k \in zeros : found <= k

\* -1 was returned for a text in which a quote opened after the open position
\* is never closed and hides a close character
C25_Witness ==
    /\ pc = "scanned"
    /\ found = -1
    /\ \E q \in (arg.openIdx + 1)..(Len(text) - 2) :
          /\ CharAt(text, q) \in Quotes
          /\ q \in OutsideQuotes(text, arg.openIdx, "", q) \cup {q}
          /\ \A r \in (q + 1)..(Len(text) - 1) : CharAt(text, r) # CharAt(text, q)
          /\ \E r \in (q + 1)..(Len(text) - 1) : CharAt(text, r) = arg.close

\* C27: for a value block with no annotation and no type field the inferred
\* type is the type of the literal shape of its default: string for a quoted
\* literal, number for a numeric literal, boolean for true and false, any[]
\* for a bracket literal, Record<string, any> for a brace literal (one with an
\* array inside too), any for anything else.
C27_DefaultShape ==
    (pc = "inferred" /\ decl.annot = "" /\ decl.typeField.names = <<>>)
    => output = ShapeType(decl.default)

\* C26: a comment met at depth zero while the value of an entry is walked is
\* appended to the comment of the entry, and its text is no part of the value
\* of the entry.
C26_InlineCommentOutOfValue ==
    (pc \in {"extracted", "converted"} /\ decl.trailing # "")
    => /\ Len(props) = 1
       /\ props[1].comment = Some(decl.trailing)
       /\ props[1].value = RenderValue(decl)

\* C30: the default extracted for an entry is the value written after the
\* colon of its own default field, up to the first comma, line break or
\* closing brace at depth zero, wherever else the word default stands in the
\* value block.
C30_OwnDefaultField ==
    (pc = "inferred" /\ decl.default # "" /\ ~StartsWith(decl.default, "() =>"))
    => props[1].defaultValue = Some(decl.default)

\* C28: a key written as a string literal that is a bare identifier already
\* ('fooBar') is not normalized: its name is the literal without the quotes,
\* the case of its letters unchanged.
C28_IdentifierKeyKept ==
    (pc = "named" /\ decl.quote # "" /\ BareIdentifier(decl.key))
    => output = decl.key

\* C29: extractProps ends on every body: every iteration of its outer loop
\* leaves the position further on than it found it, and never beyond the end
\* of the body, so that a body of n characters takes at most n iterations;
\* an iteration keeps the entries emitted before it, and the loop is left
\* with the result of extractProps.
C29_ExtractTerminates ==
    /\ [][(pc = "walking" /\ found < Len(text))
          => /\ found' > found
             /\ found' <= Len(text)
             /\ Len(props') >= Len(props)
             /\ SubSeq(props', 1, Len(props)) = props]_vars
    /\ [](pc = "walked" => props = extractProps(text))

\* the loop was left on a block comment that is not closed, with an entry
\* emitted before it
C29_Witness ==
    /\ pc = "walked"
    /\ Len(props) >= 1
    /\ Includes(text, "/* x")
    /\ ~Includes(text, "*/")
    /\ found = Len(text)

EntryNameOf(e) == Slice(e, 0, IndexOf(e, ":", 0))

\* C23: the edit of the quick fix replaces the span of the declaration by
\* the converted declaration, and replaces `<binding>.<name>` by the name at
\* every place of the document where an entry name of the declaration is
\* read from the name the declaration binds, and nowhere else.
C23_FixRenamesBindingUses ==
    pc = "fixed"
    => /\ output = convertProps(Slice(text, matches[1].start, matches[1].end))
       /\ props =
             {[start |-> k, end |-> k + Len(decl.binding) + 1 + Len(n),
               newText |-> n] :
                 <<k, n>> \in {x \in (0..Len(text))
                                      \X {EntryNameOf(decl.entries[j]) :
                                             j \in 1..Len(decl.entries)} :
                     /\ WordBoundary(text, x[1])
                     /\ StartsWithAt(text, decl.binding \o "." \o x[2], x[1])
                     /\ WordBoundary(text,
                                     x[1] + Len(decl.binding) + 1 + Len(x[2]))}}

\* the diagnostics of the call sites located in text t
SiteDiagnostics(t) ==
    LET sites == findMatchesDefineProps(t)
    IN  [k \in 1..Len(sites) |->
            [start |-> sites[k].start, end |-> sites[k].end, code |-> "props.TypeSyntax"]]

\* C24: after every scan of a vue document the diagnostics kept for it are
\* one 'props.TypeSyntax' diagnostic for each call site located in the text
\* of the latest scan, and none when that text has no <script setup
\* lang="ts"> block: no diagnostic of an earlier text is left.
C24_DiagnosticsOfLatestScan ==
    (pc = "scanned" /\ decl.languageId = "vue")
    => matches = IF isScriptSetupTs(text) THEN SiteDiagnostics(text) ELSE <<>>
====
